---- MODULE Spec2Model ----
(***************************************************************************)
(* Model of import-old-projects:                                           *)
(*   main           the command line, the token, and its five branches:    *)
(*                  the --import and --revert-import batches, the          *)
(*                  aggregation batch of --status and --write-status-file, *)
(*                  the print of the persisted file of --read-status-file  *)
(*   importProject  the import state machine                               *)
(*   revertImport   the revert operation                                   *)
(*   getProjectInfo the snapshot aggregator, as importProject awaits it    *)
(*                  and as the callbacks of the aggregation batch run it   *)
(* Every remote call is one step: the request is issued and its outcome    *)
(* (a response, or a rejection that throws at the await) is drawn by \E.   *)
(* calls is the trace of the remote calls and sleeps of the operation that *)
(* runs for the current name of an import or revert batch; it is dropped   *)
(* with the operation's locals when main takes the operation's result.     *)
(* The contents of the stargazer, watcher and fork lists are not read on   *)
(* the import path and are left out of the snapshot there; the aggregation *)
(* batch keeps them.                                                       *)
(* Specifications:                                                         *)
(*   Spec          the import and revert batches, from the branch on       *)
(*   ImportSpec    the import of one repository, status texts answered     *)
(*   FairImportSpec  the import of one repository into an empty account,   *)
(*                 every awaited step coming (weak fairness)               *)
(*   StatusSpec    the aggregation batch and the print of the file, from   *)
(*                 the branch on, callbacks interleaved                    *)
(*   SnapshotSpec  the aggregation of one repository, every answer drawn   *)
(*   SortSpec      the aggregation batch of --status, up to three names,   *)
(*                 owners and names of either case                         *)
(*   RoundTripSpec --write-status-file of all repositories, then           *)
(*                 --read-status-file of the file that run wrote           *)
(*   MainSpec      main from its first line, any set of action flags       *)
(***************************************************************************)
EXTENDS Integers, Sequences, FiniteSets, TLC

(***************************************************************************)
(* Bounds of the model.                                                    *)
(***************************************************************************)
MaxPolls == 2
MaxIssues == 1
\* Entries of a stargazer, watcher or fork list answered to one aggregation.
MaxEntries == 3
\* Issues listed for one aggregation.
MaxSnapshotIssues == 3

(***************************************************************************)
(* Values.  A nullable value is a set with at most one element.            *)
(***************************************************************************)
Null == {}
Some(v) == {v}
Coalesce(x, d) == IF x = Null THEN d ELSE CHOOSE v \in x : TRUE

Names == {"r1", "r2"}

SrcAccount == "patlillis-xx"
DstAccount == "patlillis"

IMPORT_IN_PROGRESS_STATUSES == {"detecting", "importing", "mapping", "pushing"}
IMPORT_ERROR_STATUSES ==
    {"auth_failed", "error", "detection_needs_auth",
     "detection_found_nothing", "detection_found_multiple"}
IMPORT_COMPLETE_STATUS == "complete"
IMPORT_POLL_INTERVAL == 200

\* A status of the import API that is in none of the three lists above.
OtherStatuses == {"waiting_to_push"}
Statuses ==
    IMPORT_IN_PROGRESS_STATUSES \cup IMPORT_ERROR_STATUSES
        \cup {IMPORT_COMPLETE_STATUS} \cup OtherStatuses

NoStatus == "undefined"
\* A local variable that holds nothing (yet, or any more).
NoData == [none |-> TRUE]

\* `${projectName}-clone`
CloneName(projectName) == projectName \o "-clone"

FullName(owner, name) == owner \o "/" \o name
HtmlUrl(owner, name) == "https://github.com/" \o FullName(owner, name)


(***************************************************************************)
(* Inputs: what the Remote Repository Service may answer.                  *)
(***************************************************************************)
\* Settings of a repository as repos.get returns them.  Each field takes
\* more than one value; topics may be absent.
BaseSettings ==
    [default_branch |-> "master", description |-> Null, homepage |-> Null,
     has_issues |-> TRUE, has_projects |-> TRUE, has_wiki |-> TRUE,
     has_pages |-> FALSE, topics |-> Null]

RepoSettings ==
    {BaseSettings,
     [BaseSettings EXCEPT !.default_branch = "gh-pages"],
     [BaseSettings EXCEPT !.description = Some("a tool")],
     [BaseSettings EXCEPT !.homepage = Some("https://x.io")],
     [BaseSettings EXCEPT !.has_issues = FALSE],
     [BaseSettings EXCEPT !.has_projects = FALSE],
     [BaseSettings EXCEPT !.has_wiki = FALSE],
     [BaseSettings EXCEPT !.has_pages = TRUE],
     [BaseSettings EXCEPT !.topics = Some(<<>>)],
     [BaseSettings EXCEPT !.topics = Some(<<"a", "b">>)],
     [BaseSettings EXCEPT !.topics = Some(<<"b", "a">>), !.has_pages = TRUE,
                          !.description = Some("a tool")]}

\* The data of a successful repos.get({owner, repo}).
RepoResponses(owner, name) ==
    {[owner |-> owner, name |-> name, full_name |-> FullName(owner, name),
      html_url |-> HtmlUrl(owner, name), settings |-> s] : s \in RepoSettings}

\* The data of a successful repos.getPages.
PagesResponses(owner, name) ==
    {[html_url |-> "https://" \o owner \o ".github.io/" \o name, cname |-> Null,
      source |-> [branch |-> "gh-pages", directory |-> Null]],
     [html_url |-> "https://" \o owner \o ".github.io/" \o name,
      cname |-> Some("x.io"),
      source |-> [branch |-> "master", directory |-> Some("/docs")]]}

\* Sequences over S without repetition, of length at most n.
RECURSIVE DistinctSeqs(_, _)
DistinctSeqs(S, n) ==
    IF n = 0 \/ S = {} THEN {<<>>}
    ELSE {<<>>} \cup
         UNION {{<<x>> \o t : t \in DistinctSeqs(S \ {x}, n - 1)} : x \in S}

\* The status_text of an answer of the import API: absent, or a text.  The
\* batches of several names are run with answers that carry no text.
StatusTexts == {Null, Some("Importing...")}
PlainTexts == {Null}

\* issues.listForRepo answers the issue numbers in any order.
IssueListings == DistinctSeqs(1..MaxIssues, MaxIssues)
\* issues.listComments answers the comments of one issue.
CommentListings == {<<>>, <<"c1">>}
\* repos.listForUser answers the names of the source account's repositories.
RepoListings == DistinctSeqs(Names, Cardinality(Names))
\* The positional arguments of the command line: names, each at most once.
ArgLists == DistinctSeqs(Names, Cardinality(Names))
\* Repositories the destination account may hold before main runs.
InitialDstRepos == {{}, {CloneName("r1")}}

(***************************************************************************)
(* Pure helpers of the code.                                               *)
(***************************************************************************)
\* issues.sort((a, b) => a.number - b.number): insertion into a sorted prefix.
RECURSIVE InsertByNumber(_, _)
InsertByNumber(sorted, n) ==
    IF sorted = <<>> THEN <<n>>
    ELSE IF Head(sorted) - n > 0 THEN <<n>> \o sorted
    ELSE <<Head(sorted)>> \o InsertByNumber(Tail(sorted), n)

\* Variant: the issues stay in the order they were listed in.
SortIssues_AsListed(issues) == issues

RECURSIVE SortIssues(_)
SortIssues(issues) ==
    IF issues = <<>> THEN <<>>
    ELSE InsertByNumber(SortIssues(SubSeq(issues, 1, Len(issues) - 1)),
                        issues[Len(issues)])

\* for (const issue of issues) issueCommentPromises.push(api.issues.listComments(
\*     {owner, repo, issue_number: issue.number})): the calls, in their order.
CommentCalls(issues) == [k \in 1..Len(issues) |-> [issue_number |-> issues[k]]]

\* The orders in which n calls that are under way may be answered.
Orders(n) == {o \in DistinctSeqs(1..n, n) : Len(o) = n}

\* Variant: the values come in the order in which the promises were settled.
PromiseAll_ByArrival(values, order) == [j \in 1..Len(order) |-> values[order[j]]]

\* await Promise.all(promises), every promise fulfilled: each value goes to
\* the position of its promise as it arrives; values[k] is the value of the
\* k-th promise, order the order of arrival.
RECURSIVE Settle(_, _, _)
Settle(slots, values, order) ==
    IF order = <<>> THEN slots
    ELSE Settle([slots EXCEPT ![Head(order)] = values[Head(order)]], values, Tail(order))

PromiseAll(values, order) ==
    Settle([k \in 1..Len(values) |-> NoData], values, order)

\* Variant: the comments are stored under the position of the issue.
IssueCommentsOf_ByIndex(issues, responses) ==
    [n \in 0..(Len(issues) - 1) |-> responses[n + 1]]

\* for (i...) issueComments[issues[i].number] = issueCommentResponses[i].data
IssueCommentsOf(issues, responses) ==
    [n \in {issues[i] : i \in 1..Len(issues)} |->
        responses[CHOOSE i \in 1..Len(issues) : issues[i] = n]]

\* Variant: "mapping" is missing from the in-progress list.
IsInProgress_NoMapping(status) == status \in {"detecting", "importing", "pushing"}

\* IMPORT_IN_PROGRESS_STATUSES.includes(importStatus)
IsInProgress(status) == status \in IMPORT_IN_PROGRESS_STATUSES
\* IMPORT_ERROR_STATUSES.includes(importStatus)
IsErrorStatus(status) == status \in IMPORT_ERROR_STATUSES

\* A call of api.repos.listForUser({username: "patlillis-xx", per_page: 100})
\* and the names of its answer, projectsResponse.data.map((p) => p.name).
ListForUser(ok, names) == [username |-> SrcAccount, ok |-> ok, names |-> names]

\* One entry of the trace of remote calls.
NoArg == [none |-> TRUE]
Call(op, owner, repo, arg, ok) ==
    [op |-> op, owner |-> owner, repo |-> repo, arg |-> arg, ok |-> ok]

(***************************************************************************)
(* State.                                                                  *)
(***************************************************************************)
VARIABLES
    cmd,                   \* the action flag given: "import" or "revert"
    args,                  \* the positional arguments (repository names)
    mainPc,                \* where main is
    projects,              \* main's list of repository names
    idx,                   \* position of the for loop in projects
    pc,                    \* where the running operation is
    repoInfo,              \* getProjectInfo: the data of repos.get
    fanout,                \* getProjectInfo: sorted issues and pages data
    projectInfo,           \* importProject: the snapshot of the source
    importStatus,          \* importProject: last status observed
    previousImportStatus,  \* importProject: the status observed before it
    importStatusText,      \* importProject: the status_text of the last answer
    statusLine,            \* importProject: its last "Import status:" line
    loopLines,             \* importProject: lines its while loop has logged
    calls,                 \* remote calls and sleeps of the running operation
    errors,                \* names whose operation threw into main's catch
    dstRepos,              \* repositories the destination account holds
    flags,                 \* the action flags of the command line
    token,                 \* "unread", "read" or "failed": the read of token.txt
    effects,               \* kinds of side effects main has had so far
    started,               \* names the batch operation was invoked with
    aggPc,                 \* aggregation batch: where each callback is
    agg,                   \* aggregation batch: the locals of each callback
    projectInfos,          \* aggregation batch: the shared result list
    printed,               \* full names printProjectInfo was called for
    file,                  \* what main wrote to data/projects.json
    readInfos,             \* --read-status-file: what fs.readJson returned
    listCalls              \* the calls of repos.listForUser and their answers

vars ==
    <<cmd, args, mainPc, projects, idx, pc, repoInfo, fanout, projectInfo,
      importStatus, previousImportStatus, importStatusText, statusLine, loopLines,
      calls,
      errors, dstRepos,
      flags, token, effects, started, aggPc, agg, projectInfos, printed, file,
      readInfos, listCalls>>

mainVars == <<cmd, args, mainPc, projects, idx, started>>
\* What the import and revert batches never touch.
restVars ==
    <<flags, token, aggPc, agg, projectInfos, printed, file, readInfos, listCalls>>
importVars ==
    <<repoInfo, fanout, projectInfo, importStatus, previousImportStatus,
      importStatusText, statusLine, loopLines>>

\* The name the running operation was called with.
projectName == projects[idx]
cloneName == CloneName(projectName)

\* Variant: the poll asks about the repository of the source name.
polledRepo_ProjectName == projectName

\* getImportStatus({owner: "patlillis", repo: cloneName}): the repository the
\* poll asks about.
polledRepo == cloneName

Polls == Len(SelectSeq(calls, LAMBDA c : c.op = "migrations.getImportStatus"))

\* A call of the Remote Repository Service is issued.
Remote == effects' = effects \cup {"remote"}

\* The state of main once it has read the token, an import or revert flag
\* given (line 80).
Init ==
    /\ cmd \in {"import", "revert"}
    /\ args \in ArgLists
    /\ mainPc = "resolve"
    /\ projects = <<>>
    /\ idx = 0
    /\ pc = "none"
    /\ repoInfo = NoData
    /\ fanout = NoData
    /\ projectInfo = NoData
    /\ importStatus = NoStatus
    /\ previousImportStatus = NoStatus
    /\ importStatusText = Null
    /\ statusLine = NoData
    /\ loopLines = 0
    /\ calls = <<>>
    /\ errors = <<>>
    /\ dstRepos \in InitialDstRepos
    /\ flags = {IF cmd = "import" THEN "--import" ELSE "--revert-import"}
    /\ token = "read"
    /\ effects = {"readFile"}
    /\ started = <<>>
    /\ aggPc = <<>>
    /\ agg = <<>>
    /\ projectInfos = <<>>
    /\ printed = <<>>
    /\ file = Null
    /\ readInfos = NoData
    /\ listCalls = <<>>

(***************************************************************************)
(* main: the import and revert batches.                                    *)
(***************************************************************************)
\* args.length === 0: projects.push(...(await fetchAllProjects())).  A
\* rejection of listForUser is not caught: main rejects.
FetchAllProjects ==
    /\ mainPc = "resolve"
    /\ args = <<>>
    /\ \/ \E listing \in RepoListings :
            /\ projects' = listing
            /\ listCalls' = Append(listCalls, ListForUser(TRUE, listing))
            /\ mainPc' = "loop"
            /\ idx' = 1
       \/ /\ mainPc' = "rejected"
          /\ listCalls' = Append(listCalls, ListForUser(FALSE, <<>>))
          /\ UNCHANGED <<projects, idx>>
    /\ UNCHANGED <<cmd, args, pc, importVars, calls, errors, dstRepos>>
    /\ Remote
    /\ UNCHANGED started
    /\ UNCHANGED <<flags, token, aggPc, agg, projectInfos, printed, file, readInfos>>

\* Variant: the account's repositories are listed though names are given.
UseArgs_Lists ==
    /\ mainPc = "resolve"
    /\ args # <<>>
    /\ projects' = args
    /\ \E listing \in RepoListings :
          listCalls' = Append(listCalls, ListForUser(TRUE, listing))
    /\ mainPc' = "loop"
    /\ idx' = 1
    /\ UNCHANGED <<cmd, args, pc, importVars, calls, errors, dstRepos>>
    /\ Remote
    /\ UNCHANGED started
    /\ UNCHANGED <<flags, token, aggPc, agg, projectInfos, printed, file, readInfos>>

\* else: projects.push(...args)
UseArgs ==
    /\ mainPc = "resolve"
    /\ args # <<>>
    /\ projects' = args
    /\ mainPc' = "loop"
    /\ idx' = 1
    /\ UNCHANGED <<cmd, args, pc, importVars, calls, errors, dstRepos>>
    /\ UNCHANGED effects
    /\ UNCHANGED started
    /\ UNCHANGED restVars

\* Variant: the operation for the next name is called while the one before
\* it is under way.
CallOperation_Unawaited ==
    /\ mainPc = "loop"
    /\ Len(started) < Len(projects)
    /\ idx <= Len(projects)
    /\ pc' = IF cmd = "import" THEN "getRepo" ELSE "delete"
    /\ started' = Append(started, projects[Len(started) + 1])
    /\ UNCHANGED <<cmd, args, mainPc, projects, idx, importVars, calls, errors, dstRepos>>
    /\ UNCHANGED effects
    /\ UNCHANGED restVars

\* for (const project of projects) { try { await operation(api, project) ...
CallOperation ==
    /\ mainPc = "loop"
    /\ pc = "none"
    /\ idx <= Len(projects)
    /\ pc' = IF cmd = "import" THEN "getRepo" ELSE "delete"
    /\ started' = Append(started, projectName)
    /\ UNCHANGED <<cmd, args, mainPc, projects, idx, importVars, calls, errors, dstRepos>>
    /\ UNCHANGED effects
    /\ UNCHANGED restVars

\* The locals of the operation are gone once it has returned or thrown, and
\* the trace of its calls is dropped with them.
DropLocals ==
    /\ repoInfo' = NoData
    /\ fanout' = NoData
    /\ projectInfo' = NoData
    /\ importStatus' = NoStatus
    /\ previousImportStatus' = NoStatus
    /\ importStatusText' = Null
    /\ statusLine' = NoData
    /\ loopLines' = 0
    /\ calls' = <<>>

\* the operation returned: next iteration
OperationReturned ==
    /\ mainPc = "loop"
    /\ pc = "returned"
    /\ idx' = idx + 1
    /\ pc' = "none"
    /\ DropLocals
    /\ UNCHANGED <<cmd, args, mainPc, projects, errors, dstRepos>>
    /\ UNCHANGED effects
    /\ UNCHANGED started
    /\ UNCHANGED restVars

\* Variant: the catch logs the error and leaves the for loop.
OperationThrew_Break ==
    /\ mainPc = "loop"
    /\ pc = "thrown"
    /\ errors' = Append(errors, projectName)
    /\ idx' = Len(projects) + 1
    /\ pc' = "none"
    /\ DropLocals
    /\ UNCHANGED <<cmd, args, mainPc, projects, dstRepos>>
    /\ UNCHANGED effects
    /\ UNCHANGED started
    /\ UNCHANGED restVars

\* Variant: the catch swallows the error without logging it.
OperationThrew_Silent ==
    /\ mainPc = "loop"
    /\ pc = "thrown"
    /\ idx' = idx + 1
    /\ pc' = "none"
    /\ DropLocals
    /\ UNCHANGED <<cmd, args, mainPc, projects, errors, dstRepos>>
    /\ UNCHANGED effects
    /\ UNCHANGED started
    /\ UNCHANGED restVars

\* } catch (err) { console.log(chalk.red(err.stack)); }
OperationThrew ==
    /\ mainPc = "loop"
    /\ pc = "thrown"
    /\ errors' = Append(errors, projectName)
    /\ idx' = idx + 1
    /\ pc' = "none"
    /\ DropLocals
    /\ UNCHANGED <<cmd, args, mainPc, projects, dstRepos>>
    /\ UNCHANGED effects
    /\ UNCHANGED started
    /\ UNCHANGED restVars

\* the for loop is over: return
MainReturn ==
    /\ mainPc = "loop"
    /\ pc = "none"
    /\ idx > Len(projects)
    /\ mainPc' = "done"
    /\ UNCHANGED <<cmd, args, projects, idx, pc, importVars, calls, errors, dstRepos>>
    /\ UNCHANGED effects
    /\ UNCHANGED started
    /\ UNCHANGED restVars

(***************************************************************************)
(* getProjectInfo({api, owner: "patlillis-xx", repo: projectName}), as     *)
(* importProject awaits it.  A rejection of any call throws out of         *)
(* getProjectInfo and out of importProject.                                *)
(***************************************************************************)
\* Variant: the Pages configuration is fetched whatever has_pages says.
FanOutOps_AlwaysPages(has_pages) ==
    <<"activity.listStargazersForRepo", "activity.listWatchersForRepo",
      "repos.listForks", "issues.listForRepo", "repos.getPages">>

\* The calls of the first Promise.all, in the order they are issued.
FanOutOps(has_pages) ==
    <<"activity.listStargazersForRepo", "activity.listWatchersForRepo",
      "repos.listForks", "issues.listForRepo">>
        \o (IF has_pages THEN <<"repos.getPages">> ELSE <<>>)

\* Variant: a rejected repos.get is swallowed and importProject goes on.
GetRepo_GoesOn ==
    /\ pc = "getRepo"
    /\ \/ \E data \in RepoResponses(SrcAccount, projectName) :
            /\ repoInfo' = data
            /\ calls' = Append(calls, Call("repos.get", SrcAccount, projectName, NoArg, TRUE))
            /\ pc' = "fanout"
       \/ /\ calls' = Append(calls, Call("repos.get", SrcAccount, projectName, NoArg, FALSE))
          /\ pc' = "create"
          /\ UNCHANGED repoInfo
    /\ UNCHANGED <<mainVars, fanout, projectInfo, importStatus,
                   previousImportStatus, importStatusText, statusLine, loopLines,
                   errors, dstRepos>>
    /\ Remote
    /\ UNCHANGED restVars

\* const repoInfo = await api.repos.get({owner: params.owner, repo: params.repo})
GetRepo ==
    /\ pc = "getRepo"
    /\ \/ \E data \in RepoResponses(SrcAccount, projectName) :
            /\ repoInfo' = data
            /\ calls' = Append(calls, Call("repos.get", SrcAccount, projectName, NoArg, TRUE))
            /\ pc' = "fanout"
       \/ /\ calls' = Append(calls, Call("repos.get", SrcAccount, projectName, NoArg, FALSE))
          /\ pc' = "thrown"
          /\ UNCHANGED repoInfo
    /\ UNCHANGED <<mainVars, fanout, projectInfo, importStatus,
                   previousImportStatus, importStatusText, statusLine, loopLines,
                   errors, dstRepos>>
    /\ Remote
    /\ UNCHANGED restVars

\* await Promise.all([listStargazersForRepo, listWatchersForRepo, listForks,
\*   listForRepo, has_pages ? getPages : null]); then the filters and
\* issues.sort.  All the calls are issued; if any is rejected the await throws.
FanOut ==
    /\ pc = "fanout"
    /\ LET owner == repoInfo.owner
           repo == repoInfo.name
           ops == FanOutOps(repoInfo.settings.has_pages)
       IN \E failed \in SUBSET (1..Len(ops)) :
            /\ calls' = calls \o
                  [i \in 1..Len(ops) |->
                      Call(ops[i], owner, repo,
                           IF ops[i] = "issues.listForRepo"
                               THEN [state |-> "all"] ELSE NoArg,
                           i \notin failed)]
            /\ IF failed # {}
                  THEN /\ pc' = "thrown"
                       /\ UNCHANGED fanout
                  ELSE /\ pc' = "comments"
                       /\ \E issues \in IssueListings :
                          \E pages \in IF repoInfo.settings.has_pages
                                          THEN {Some(p) : p \in PagesResponses(owner, repo)}
                                          ELSE {Null} :
                            fanout' = [issues |-> SortIssues(issues), pages |-> pages]
    /\ UNCHANGED <<mainVars, repoInfo, projectInfo, importStatus,
                   previousImportStatus, importStatusText, statusLine, loopLines,
                   errors, dstRepos>>
    /\ Remote
    /\ UNCHANGED restVars

\* for (const issue of issues) issueCommentPromises.push(listComments(...));
\* await Promise.all(issueCommentPromises); issueComments[issue.number] = ...;
\* return {repo, stargazers, watchers, topics, forks, issues, issueComments, pages}
ListComments ==
    /\ pc = "comments"
    /\ LET issues == fanout.issues
       IN \E failed \in SUBSET (1..Len(issues)) :
            /\ calls' = calls \o
                  [i \in 1..Len(issues) |->
                      Call("issues.listComments", repoInfo.owner, repoInfo.name,
                           [issue_number |-> issues[i]], i \notin failed)]
            /\ IF failed # {}
                  THEN /\ pc' = "thrown"
                       /\ UNCHANGED projectInfo
                  ELSE /\ pc' = "create"
                       /\ \E responses \in [1..Len(issues) -> CommentListings] :
                          \E order \in Orders(Len(issues)) :
                            projectInfo' =
                                [repo |-> repoInfo,
                                 topics |-> Coalesce(repoInfo.settings.topics, <<>>),
                                 issues |-> issues,
                                 issueComments |->
                                    IssueCommentsOf(issues, PromiseAll(responses, order)),
                                 pages |-> fanout.pages]
    /\ repoInfo' = NoData
    /\ fanout' = NoData
    /\ UNCHANGED <<mainVars, importStatus, previousImportStatus, importStatusText,
                   statusLine, loopLines, errors, dstRepos>>
    /\ Remote
    /\ UNCHANGED restVars

(***************************************************************************)
(* importProject(api, projectName)                                         *)
(***************************************************************************)
\* Variant: the rejection of createForAuthenticatedUser is not propagated.
CreateRepo_Unawaited ==
    /\ pc = "create"
    /\ \/ /\ cloneName \notin dstRepos
          /\ calls' = Append(calls, Call("repos.createForAuthenticatedUser", DstAccount,
                                         cloneName, NoArg, TRUE))
          /\ dstRepos' = dstRepos \cup {cloneName}
       \/ /\ calls' = Append(calls, Call("repos.createForAuthenticatedUser", DstAccount,
                                         cloneName, NoArg, FALSE))
          /\ UNCHANGED dstRepos
    /\ pc' = "startImport"
    /\ UNCHANGED <<mainVars, importVars, errors>>
    /\ Remote
    /\ UNCHANGED restVars

\* await api.repos.createForAuthenticatedUser({name: cloneName}); the token is
\* the destination account's.  The service rejects a name that exists.
CreateRepo ==
    /\ pc = "create"
    /\ \/ /\ cloneName \notin dstRepos
          /\ calls' = Append(calls, Call("repos.createForAuthenticatedUser", DstAccount,
                                         cloneName, NoArg, TRUE))
          /\ dstRepos' = dstRepos \cup {cloneName}
          /\ pc' = "startImport"
       \/ /\ calls' = Append(calls, Call("repos.createForAuthenticatedUser", DstAccount,
                                         cloneName, NoArg, FALSE))
          /\ pc' = "thrown"
          /\ UNCHANGED dstRepos
    /\ UNCHANGED <<mainVars, importVars, errors>>
    /\ Remote
    /\ UNCHANGED restVars

\* ({data: {status: importStatus, status_text: importStatusText}} =
\*     await api.migrations.startImport(
\*     {owner: "patlillis", repo: cloneName, vcs_url: projectInfo.repo.html_url}))
\* Texts: the status texts the service may answer.
StartImport(Texts) ==
    /\ pc = "startImport"
    /\ LET arg == [vcs_url |-> projectInfo.repo.html_url]
       IN \/ \E status \in Statuses : \E text \in Texts :
               /\ importStatus' = status
               /\ importStatusText' = text
               /\ calls' = Append(calls, Call("migrations.startImport", DstAccount,
                                              cloneName, arg, TRUE))
               /\ pc' = "loop"
          \/ /\ calls' = Append(calls, Call("migrations.startImport", DstAccount,
                                            cloneName, arg, FALSE))
             /\ pc' = "thrown"
             /\ UNCHANGED <<importStatus, importStatusText>>
    /\ UNCHANGED <<mainVars, repoInfo, fanout, projectInfo, previousImportStatus,
                   statusLine, loopLines, errors, dstRepos>>
    /\ Remote
    /\ UNCHANGED restVars

\* console.log(`${IN}Import status: ${colour(text)}`)
StatusLine(text, colour) == [text |-> text, colour |-> colour]

\* Variant: the loop gives up after its first poll.
LoopGoesOn_OnePoll(status, polls) == IsInProgress(status) /\ polls < 1

\* while (IMPORT_IN_PROGRESS_STATUSES.includes(importStatus)): the condition
\* reads the status only; the polls made so far are no part of it.
LoopGoesOn(status, polls) == IsInProgress(status)

\* Variant: the loop logs the status on every cycle.
LogsStatus_EveryCycle(status, previous) == TRUE

\* if (importStatus !== previousImportStatus): the loop logs the status it is
\* looking at only when it differs from the one of the cycle before.
LogsStatus(status, previous) == status # previous

\* while (IMPORT_IN_PROGRESS_STATUSES.includes(importStatus)) {
\*   if (importStatus !== previousImportStatus)
\*     console.log(... chalk.cyan(importStatusText ?? importStatus));
\*   await new Promise((resolve) => setTimeout(resolve, IMPORT_POLL_INTERVAL));
\* MaxPolls caps the number of polls of one run.
LoopSleep ==
    /\ pc = "loop"
    /\ LoopGoesOn(importStatus, Polls)
    /\ Polls < MaxPolls
    /\ statusLine' =
          IF LogsStatus(importStatus, previousImportStatus)
              THEN StatusLine(Coalesce(importStatusText, importStatus), "cyan")
              ELSE statusLine
    /\ loopLines' =
          IF LogsStatus(importStatus, previousImportStatus)
              THEN loopLines + 1
              ELSE loopLines
    /\ calls' = Append(calls, Call("sleep", "", "", [ms |-> IMPORT_POLL_INTERVAL], TRUE))
    /\ pc' = "poll"
    /\ UNCHANGED <<mainVars, repoInfo, fanout, projectInfo, importStatus,
                   previousImportStatus, importStatusText, errors, dstRepos>>
    /\ UNCHANGED effects
    /\ UNCHANGED restVars

\*   previousImportStatus = importStatus;
\*   ({data: {status: importStatus, status_text: importStatusText}} =
\*       await api.migrations.getImportStatus({owner: "patlillis", repo: cloneName})) }
GetImportStatus(Texts) ==
    /\ pc = "poll"
    /\ previousImportStatus' = importStatus
    /\ \/ \E status \in Statuses : \E text \in Texts :
            /\ importStatus' = status
            /\ importStatusText' = text
            /\ calls' = Append(calls, Call("migrations.getImportStatus", DstAccount,
                                           polledRepo, NoArg, TRUE))
            /\ pc' = "loop"
       \/ /\ calls' = Append(calls, Call("migrations.getImportStatus", DstAccount,
                                         polledRepo, NoArg, FALSE))
          /\ pc' = "thrown"
          /\ UNCHANGED <<importStatus, importStatusText>>
    /\ UNCHANGED <<mainVars, repoInfo, fanout, projectInfo, statusLine, loopLines,
                   errors, dstRepos>>
    /\ Remote
    /\ UNCHANGED restVars

\* Variant: the error branch logs and does not return.
AfterLoop_FallsThrough(status) == "update"

\* Variant: the error branch logs and throws.
AfterLoop_Throws(status) ==
    IF status = IMPORT_COMPLETE_STATUS THEN "update"
    ELSE IF IsErrorStatus(status) THEN "thrown"
    ELSE "update"

\* The line the branches after the loop log: cyan on complete, red on an
\* error status, none otherwise.
LineAfterLoop(status, text, line) ==
    IF status = IMPORT_COMPLETE_STATUS THEN StatusLine(Coalesce(text, status), "cyan")
    ELSE IF IsErrorStatus(status) THEN StatusLine(Coalesce(text, status), "red")
    ELSE line

\* if (importStatus === IMPORT_COMPLETE_STATUS) {log}
\* else if (IMPORT_ERROR_STATUSES.includes(importStatus)) {log; return;}
\* Where importProject goes when the loop is left with this status.
AfterLoop(status) ==
    IF status = IMPORT_COMPLETE_STATUS THEN "update"
    ELSE IF IsErrorStatus(status) THEN "returned"
    ELSE "update"

\* Variant: an error status rolls the created clone back.
LoopExit_Rollback ==
    /\ pc = "loop"
    /\ ~LoopGoesOn(importStatus, Polls)
    /\ pc' = AfterLoop(importStatus)
    /\ statusLine' = LineAfterLoop(importStatus, importStatusText, statusLine)
    /\ IF IsErrorStatus(importStatus)
          THEN /\ calls' = Append(calls, Call("repos.delete", DstAccount, cloneName,
                                              NoArg, TRUE))
               /\ dstRepos' = dstRepos \ {cloneName}
          ELSE UNCHANGED <<calls, dstRepos>>
    /\ UNCHANGED <<mainVars, repoInfo, fanout, projectInfo, importStatus,
                   previousImportStatus, importStatusText, loopLines, errors>>
    /\ IF IsErrorStatus(importStatus) THEN Remote ELSE UNCHANGED effects
    /\ UNCHANGED restVars

\* The loop is left: the branches at lines 88 to 101.
LoopExit ==
    /\ pc = "loop"
    /\ ~LoopGoesOn(importStatus, Polls)
    /\ pc' = AfterLoop(importStatus)
    /\ statusLine' = LineAfterLoop(importStatus, importStatusText, statusLine)
    /\ UNCHANGED <<mainVars, repoInfo, fanout, projectInfo, importStatus,
                   previousImportStatus, importStatusText, loopLines, calls, errors,
                   dstRepos>>
    /\ UNCHANGED effects
    /\ UNCHANGED restVars

\* Variant: has_wiki is copied from has_issues.
UpdateFields_WikiFromIssues(info) ==
    [default_branch |-> info.repo.settings.default_branch,
     description |-> info.repo.settings.description,
     homepage |-> info.repo.settings.homepage,
     has_issues |-> info.repo.settings.has_issues,
     has_projects |-> info.repo.settings.has_projects,
     has_wiki |-> info.repo.settings.has_issues]

\* The fields of the first api.repos.update.
UpdateFields(info) ==
    [default_branch |-> info.repo.settings.default_branch,
     description |-> info.repo.settings.description,
     homepage |-> info.repo.settings.homepage,
     has_issues |-> info.repo.settings.has_issues,
     has_projects |-> info.repo.settings.has_projects,
     has_wiki |-> info.repo.settings.has_wiki]

\* Variant: a rejection of the settings update is caught inside
\* importProject, which goes on with the topics.
UpdateRepo_Caught ==
    /\ pc = "update"
    /\ \/ calls' = Append(calls, Call("repos.update", DstAccount, cloneName,
                                      UpdateFields(projectInfo), TRUE))
       \/ calls' = Append(calls, Call("repos.update", DstAccount, cloneName,
                                      UpdateFields(projectInfo), FALSE))
    /\ pc' = "topics"
    /\ UNCHANGED <<mainVars, importVars, errors, dstRepos>>
    /\ Remote
    /\ UNCHANGED restVars

\* await api.repos.update({owner: "patlillis", repo: cloneName, default_branch, ...})
UpdateRepo ==
    /\ pc = "update"
    /\ \/ /\ calls' = Append(calls, Call("repos.update", DstAccount, cloneName,
                                         UpdateFields(projectInfo), TRUE))
          /\ pc' = "topics"
       \/ /\ calls' = Append(calls, Call("repos.update", DstAccount, cloneName,
                                         UpdateFields(projectInfo), FALSE))
          /\ pc' = "thrown"
    /\ UNCHANGED <<mainVars, importVars, errors, dstRepos>>
    /\ Remote
    /\ UNCHANGED restVars

\* const topics = projectInfo.topics ?? [];
TopicsToReplace(info) == Coalesce(Some(info.topics), <<>>)

\* Variant: the topics are replaced whatever their number.
ReplaceTopics_Always ==
    /\ pc = "topics"
    /\ LET topics == TopicsToReplace(projectInfo)
       IN \/ /\ calls' = Append(calls, Call("repos.replaceAllTopics", DstAccount,
                                            cloneName, [names |-> topics], TRUE))
             /\ pc' = "private"
          \/ /\ calls' = Append(calls, Call("repos.replaceAllTopics", DstAccount,
                                            cloneName, [names |-> topics], FALSE))
             /\ pc' = "thrown"
    /\ UNCHANGED <<mainVars, importVars, errors, dstRepos>>
    /\ Remote
    /\ UNCHANGED restVars

\* if (topics.length > 0) await api.repos.replaceAllTopics({owner: "patlillis",
\*     repo: cloneName, names: topics})
ReplaceTopics ==
    /\ pc = "topics"
    /\ LET topics == TopicsToReplace(projectInfo)
       IN IF Len(topics) > 0
             THEN \/ /\ calls' = Append(calls, Call("repos.replaceAllTopics", DstAccount,
                                                    cloneName, [names |-> topics], TRUE))
                     /\ pc' = "private"
                  \/ /\ calls' = Append(calls, Call("repos.replaceAllTopics", DstAccount,
                                                    cloneName, [names |-> topics], FALSE))
                     /\ pc' = "thrown"
             ELSE /\ pc' = "private"
                  /\ UNCHANGED calls
    /\ UNCHANGED <<mainVars, importVars, errors, dstRepos>>
    /\ IF Len(TopicsToReplace(projectInfo)) > 0 THEN Remote ELSE UNCHANGED effects
    /\ UNCHANGED restVars

\* Variant: the repository of the given name is set private, not its clone.
SetPrivate_ProjectName ==
    /\ pc = "private"
    /\ \/ /\ calls' = Append(calls, Call("repos.update", DstAccount, projectName,
                                         [private |-> TRUE], TRUE))
          /\ pc' = "returned"
       \/ /\ calls' = Append(calls, Call("repos.update", DstAccount, projectName,
                                         [private |-> TRUE], FALSE))
          /\ pc' = "thrown"
    /\ UNCHANGED <<mainVars, importVars, errors, dstRepos>>
    /\ Remote
    /\ UNCHANGED restVars

\* await api.repos.update({owner: "patlillis", repo: cloneName, private: true})
SetPrivate ==
    /\ pc = "private"
    /\ \/ /\ calls' = Append(calls, Call("repos.update", DstAccount, cloneName,
                                         [private |-> TRUE], TRUE))
          /\ pc' = "returned"
       \/ /\ calls' = Append(calls, Call("repos.update", DstAccount, cloneName,
                                         [private |-> TRUE], FALSE))
          /\ pc' = "thrown"
    /\ UNCHANGED <<mainVars, importVars, errors, dstRepos>>
    /\ Remote
    /\ UNCHANGED restVars

(***************************************************************************)
(* revertImport(api, projectName)                                          *)
(***************************************************************************)
\* Variant: the repository of the given name is deleted, not its clone.
DeleteRepo_SourceName ==
    /\ pc = "delete"
    /\ \/ /\ calls' = Append(calls, Call("repos.delete", DstAccount, projectName, NoArg, TRUE))
          /\ dstRepos' = dstRepos \ {projectName}
          /\ pc' = "returned"
       \/ /\ calls' = Append(calls, Call("repos.delete", DstAccount, projectName, NoArg, FALSE))
          /\ pc' = "thrown"
          /\ UNCHANGED dstRepos
    /\ UNCHANGED <<mainVars, importVars, errors>>
    /\ Remote
    /\ UNCHANGED restVars

\* await api.repos.delete({owner: "patlillis", repo: cloneName}); the service
\* rejects the deletion of a repository that does not exist.
DeleteRepo ==
    /\ pc = "delete"
    /\ \/ /\ cloneName \in dstRepos
          /\ calls' = Append(calls, Call("repos.delete", DstAccount, cloneName, NoArg, TRUE))
          /\ dstRepos' = dstRepos \ {cloneName}
          /\ pc' = "returned"
       \/ /\ calls' = Append(calls, Call("repos.delete", DstAccount, cloneName, NoArg, FALSE))
          /\ pc' = "thrown"
          /\ UNCHANGED dstRepos
    /\ UNCHANGED <<mainVars, importVars, errors>>
    /\ Remote
    /\ UNCHANGED restVars

(***************************************************************************)
(* main: the command line and the token (lines 14 to 67), and the choice   *)
(* of the branch.                                                          *)
(***************************************************************************)
ActionFlags ==
    {"--import", "--revert-import", "--status", "--write-status-file",
     "--read-status-file"}

\* (importArg ? 1 : 0) + (revertImportArg ? 1 : 0) + (statusArg ? 1 : 0) +
\* (writeStatusFileArg ? 1 : 0) + (readStatusFileArg ? 1 : 0)
ArgSum(given) ==
    (IF "--import" \in given THEN 1 ELSE 0)
        + (IF "--revert-import" \in given THEN 1 ELSE 0)
        + (IF "--status" \in given THEN 1 ELSE 0)
        + (IF "--write-status-file" \in given THEN 1 ELSE 0)
        + (IF "--read-status-file" \in given THEN 1 ELSE 0)

\* Variant: only the absence of an action is refused.
AfterParse_NoCeiling(argSum) ==
    IF argSum = 0 THEN "noAction" ELSE "readToken"

\* if (argSum === 0) {log; return;}  if (argSum > 1) {log; return;}
AfterParse(argSum) ==
    IF argSum = 0 THEN "noAction"
    ELSE IF argSum > 1 THEN "multipleActions"
    ELSE "readToken"

ParseArgs ==
    /\ mainPc = "start"
    /\ mainPc' = AfterParse(ArgSum(flags))
    /\ UNCHANGED <<cmd, args, projects, idx, started, pc, importVars, calls, errors,
                   dstRepos, effects, restVars>>

\* Variant: the failure of the read is logged and main goes on.
ReadToken_GoesOn ==
    /\ mainPc = "readToken"
    /\ effects' = effects \cup {"readFile"}
    /\ \/ token' = "read"
       \/ token' = "failed"
    /\ mainPc' = "dispatch"
    /\ UNCHANGED <<cmd, args, projects, idx, started, pc, importVars, calls, errors,
                   dstRepos, flags, aggPc, agg, projectInfos, printed, file, readInfos,
                   listCalls>>

\* try { tokenFile = await fs.readFile(".../token.txt"); token = ... }
\* catch (err) { console.error("Error reading token", err); return; }
ReadToken ==
    /\ mainPc = "readToken"
    /\ effects' = effects \cup {"readFile"}
    /\ \/ /\ token' = "read"
          /\ mainPc' = "dispatch"
       \/ /\ token' = "failed"
          /\ mainPc' = "tokenError"
    /\ UNCHANGED <<cmd, args, projects, idx, started, pc, importVars, calls, errors,
                   dstRepos, flags, aggPc, agg, projectInfos, printed, file, readInfos,
                   listCalls>>

\* if (importArg) ... if (revertImportArg) ... if (readStatusFileArg) ...
\* if (statusArg || writeStatusFileArg) ...: the branch main enters.
Branch(given) ==
    IF "--import" \in given THEN "import"
    ELSE IF "--revert-import" \in given THEN "revert"
    ELSE IF "--read-status-file" \in given THEN "read"
    ELSE IF "--status" \in given \/ "--write-status-file" \in given THEN "status"
    ELSE "none"

\* Where main is when it has entered that branch.
BranchEntry(branch) ==
    IF branch \in {"import", "revert"} THEN "resolve"
    ELSE IF branch = "read" THEN "readStatusFile"
    ELSE IF branch = "status" THEN "checkParams"
    ELSE "done"

Dispatch ==
    /\ mainPc = "dispatch"
    /\ cmd' = Branch(flags)
    /\ mainPc' = BranchEntry(Branch(flags))
    /\ UNCHANGED <<args, projects, idx, started, pc, importVars, calls, errors,
                   dstRepos, effects, restVars>>

(***************************************************************************)
(* The aggregation batch (--status, --write-status-file) and the print of  *)
(* the persisted file (--read-status-file): what the service and the file  *)
(* system may answer, and the pure steps of getProjectInfo and main.       *)
(***************************************************************************)
\* An entry of a stargazer or watcher list, and of a fork list.
User(login) == [login |-> login, html_url |-> "https://github.com/" \o login]
Fork(full_name) == [full_name |-> full_name]

Logins == {"patlillis", "patlillis-xx", "alice", "bob"}
ForkNames == {"patlillis/r1", "patlillis/r2", "bob/r1"}

\* The lists of the entries of S without repetition, of length at most n.
EntryLists(S, n) == DistinctSeqs(S, n)

\* Variant: only the destination account is excluded.
NotSelf_OneAccount(s) == s.login # "patlillis"

\* (s) => s.login !== "patlillis" && s.login !== "patlillis-xx"
NotSelf(s) == s.login # "patlillis" /\ s.login # "patlillis-xx"
\* stargazersResponse.data.filter(...), watchersResponse.data.filter(...)
FilterSelf(data) == SelectSeq(data, NotSelf)

\* Variant: every fork of the destination account is excluded.
FilterForks_AnyName(data, repo) ==
    SelectSeq(data, LAMBDA f : f.full_name \notin {"patlillis/r1", "patlillis/r2"})

\* forksResponse.data.filter((f) => f.full_name !== `patlillis/${repo}`)
FilterForks(data, repo) ==
    SelectSeq(data, LAMBDA f : f.full_name # "patlillis/" \o repo)

\* What one aggregation is answered by its first Promise.all, pages apart.
FanOutAnswer(stargazers, watchers, forks, issues) ==
    [stargazers |-> stargazers, watchers |-> watchers, forks |-> forks,
     issues |-> issues]

\* The answers drawn when several aggregations run concurrently.
BatchSettings == {BaseSettings, [BaseSettings EXCEPT !.has_pages = TRUE]}
BatchFanOuts ==
    {FanOutAnswer(<<>>, <<>>, <<>>, <<>>),
     FanOutAnswer(<<User("alice"), User("patlillis")>>, <<User("patlillis-xx")>>,
                  <<Fork("patlillis/r1"), Fork("bob/r1")>>, <<1>>)}

\* The answers drawn when one aggregation runs: every list of stargazers,
\* every list of watchers, every list of forks, every order of the issues.
UserLists == {[i \in DOMAIN l |-> User(l[i])] : l \in EntryLists(Logins, MaxEntries)}
ForkLists == {[i \in DOMAIN l |-> Fork(l[i])] : l \in EntryLists(ForkNames, MaxEntries)}
SnapshotFanOuts ==
    {FanOutAnswer(s, <<>>, <<>>, <<>>) : s \in UserLists}
    \cup {FanOutAnswer(<<>>, w, <<>>, <<>>) : w \in UserLists}
    \cup {FanOutAnswer(<<>>, <<>>, f, <<>>) : f \in ForkLists}
    \cup {FanOutAnswer(<<>>, <<>>, <<>>, l) :
            l \in EntryLists(1..MaxSnapshotIssues, MaxSnapshotIssues)}

\* Variant: the strings are compared as they are.
ToLocaleLowerCase_AsIs(s) == s

\* p.repo.owner.login.toLocaleLowerCase(), p.repo.name.toLocaleLowerCase()
ToLocaleLowerCase(s) ==
    CASE s = "R1" -> "r1"
      [] s = "R2" -> "r2"
      [] s = "Patlillis-xx" -> "patlillis-xx"
      [] s = "Bob" -> "bob"
      [] OTHER -> s

\* The strings of the model in the order of < on JavaScript strings.
StringOrder ==
    <<"Bob", "Patlillis-xx", "R1", "R2", "alice", "bob", "patlillis",
      "patlillis-xx", "r1", "r2", "r3">>
StringRank(s) == CHOOSE i \in 1..Len(StringOrder) : StringOrder[i] = s

\* lodash sortBy with the two iteratees: is a after b?
SortsAfter(a, b) ==
    LET ao == StringRank(ToLocaleLowerCase(a.repo.owner))
        bo == StringRank(ToLocaleLowerCase(b.repo.owner))
        an == StringRank(ToLocaleLowerCase(a.repo.name))
        bn == StringRank(ToLocaleLowerCase(b.repo.name))
    IN ao > bo \/ (ao = bo /\ an > bn)

\* sortBy is stable: an entry goes behind the entries it does not precede.
RECURSIVE InsertByKey(_, _)
InsertByKey(sorted, p) ==
    IF sorted = <<>> THEN <<p>>
    ELSE IF SortsAfter(Head(sorted), p) THEN <<p>> \o sorted
    ELSE <<Head(sorted)>> \o InsertByKey(Tail(sorted), p)

RECURSIVE SortBy(_)
SortBy(infos) ==
    IF infos = <<>> THEN <<>>
    ELSE InsertByKey(SortBy(SubSeq(infos, 1, Len(infos) - 1)), infos[Len(infos)])

\* Variant: a mapping without keys is left out as well.
ToJson_NoEmptyMapping(info) ==
    [k \in DOMAIN info \
            ((IF info.pages = Null THEN {"pages"} ELSE {})
                \cup (IF DOMAIN info.issueComments = {} THEN {"issueComments"} ELSE {}))
        |-> info[k]]

\* JSON.stringify leaves out a property whose value is undefined (pages of a
\* repository without Pages); readJson gives back what is in the file.
ToJson(info) ==
    IF info.pages = Null
        THEN [k \in DOMAIN info \ {"pages"} |-> info[k]]
        ELSE info

\* Array.prototype.includes compares with SameValueZero: a string (an
\* argument) is never the same value as an object (projectInfo.repo).
SameValueZero(string, object) == FALSE
ArgsInclude(list, repo) == \E i \in 1..Len(list) : SameValueZero(list[i], repo)

\* A snapshot as an earlier run may have persisted it.
PersistedSnapshot(name) ==
    ToJson([repo |-> [owner |-> SrcAccount, name |-> name,
                      full_name |-> FullName(SrcAccount, name),
                      html_url |-> HtmlUrl(SrcAccount, name),
                      settings |-> BaseSettings],
            stargazers |-> <<>>, watchers |-> <<>>, topics |-> <<>>, forks |-> <<>>,
            issues |-> <<>>, issueComments |-> <<>>, pages |-> Null])

\* What data/projects.json may hold when --read-status-file reads it.
FileContents ==
    {[projects |-> [i \in DOMAIN l |-> PersistedSnapshot(l[i])]] :
        l \in DistinctSeqs(Names, Cardinality(Names))}

(***************************************************************************)
(* main: the aggregation batch (lines 145 to 200).  Each name of the list  *)
(* has its async callback; a callback runs from one await to the next in   *)
(* one step, and the steps of the callbacks interleave.                    *)
(***************************************************************************)
importBatchVars == <<idx, started, pc, importVars, calls, dstRepos>>
Callbacks == 1..Len(projects)

\* Variant: the names given to --write-status-file are not refused.
StatusCheckParams_NoCheck ==
    /\ mainPc = "checkParams"
    /\ mainPc' = "statusResolve"
    /\ UNCHANGED <<cmd, args, projects, importBatchVars, errors, effects, restVars>>

\* if (writeStatusFileArg && args.length !== 0) {log; return;}
StatusCheckParams ==
    /\ mainPc = "checkParams"
    /\ mainPc' = IF "--write-status-file" \in flags /\ Len(args) # 0
                    THEN "paramsError" ELSE "statusResolve"
    /\ UNCHANGED <<cmd, args, projects, importBatchVars, errors, effects, restVars>>

\* projects.map(async (project) => {...}): every callback runs up to its
\* await of repos.get.
StartCallbacks(names) ==
    /\ projects' = names
    /\ aggPc' = [i \in 1..Len(names) |-> "getRepo"]
    /\ agg' = [i \in 1..Len(names) |-> NoData]
    /\ mainPc' = "aggregate"

\* args.length === 0: projects.push(...(await fetchAllProjects())).  A
\* rejection of listForUser is not caught: main rejects.
StatusFetchAllProjects(Listings) ==
    /\ mainPc = "statusResolve"
    /\ args = <<>>
    /\ Remote
    /\ \/ \E listing \in Listings :
            /\ StartCallbacks(listing)
            /\ listCalls' = Append(listCalls, ListForUser(TRUE, listing))
       \/ /\ mainPc' = "rejected"
          /\ listCalls' = Append(listCalls, ListForUser(FALSE, <<>>))
          /\ UNCHANGED <<projects, aggPc, agg>>
    /\ UNCHANGED <<cmd, args, importBatchVars, errors, flags, token, projectInfos,
                   printed, file, readInfos>>

\* else: projects.push(...args)
StatusUseArgs ==
    /\ mainPc = "statusResolve"
    /\ args # <<>>
    /\ Remote
    /\ StartCallbacks(args)
    /\ UNCHANGED <<cmd, args, importBatchVars, errors, flags, token, projectInfos,
                   printed, file, readInfos, listCalls>>

\* Variant: the catch logs nothing.
Caught_Silent(i) ==
    /\ aggPc' = [aggPc EXCEPT ![i] = "caught"]
    /\ agg' = [agg EXCEPT ![i] = NoData]
    /\ UNCHANGED errors

\* Variant: the catch logs the error and the callback goes on with what it
\* has: a snapshot of the repository's name alone.
Caught_Partial(i) ==
    /\ aggPc' = [aggPc EXCEPT ![i] = "resolved"]
    /\ agg' = [agg EXCEPT ![i] =
          [answer |-> FanOutAnswer(<<>>, <<>>, <<>>, <<>>),
           comments |-> <<>>,
           result |-> [repo |-> [owner |-> SrcAccount, name |-> projects[i],
                                 full_name |-> FullName(SrcAccount, projects[i])],
                       issues |-> <<>>, issueComments |-> <<>>]]]
    /\ errors' = Append(errors, projects[i])

\* } catch (err) { console.log(chalk.red(err.stack)); }: the callback of
\* position i ends without a push.
Caught(i) ==
    /\ aggPc' = [aggPc EXCEPT ![i] = "caught"]
    /\ agg' = [agg EXCEPT ![i] = NoData]
    /\ errors' = Append(errors, projects[i])

\* getProjectInfo, lines 19 to 54: repos.get({owner: "patlillis-xx", repo})
\* is answered (the answer names the login of the repository's owner and the
\* repository's name); the calls of the first Promise.all are issued.
AggGetRepo(i, Owners, Settings) ==
    /\ mainPc = "aggregate"
    /\ aggPc[i] = "getRepo"
    /\ Remote
    /\ \/ \E owner \in Owners : \E data \in RepoResponses(owner, projects[i]) :
            /\ data.settings \in Settings
            /\ aggPc' = [aggPc EXCEPT ![i] = "fanout"]
            /\ agg' = [agg EXCEPT ![i] = [repoInfo |-> data]]
            /\ UNCHANGED errors
       \/ Caught(i)
    /\ UNCHANGED <<cmd, args, mainPc, projects, importBatchVars, flags, token,
                   projectInfos, printed, file, readInfos, listCalls>>

\* getProjectInfo, lines 56 to 88: the first Promise.all is answered; the
\* filters, issues.sort, and the listComments calls are issued.
AggFanOut(i, FanOuts) ==
    /\ mainPc = "aggregate"
    /\ aggPc[i] = "fanout"
    /\ Remote
    /\ LET data == agg[i].repoInfo
           repo == data.name
       IN \/ \E answer \in FanOuts :
             \E pages \in IF data.settings.has_pages
                             THEN {Some(p) : p \in PagesResponses(data.owner, repo)}
                             ELSE {Null} :
                /\ aggPc' = [aggPc EXCEPT ![i] = "comments"]
                /\ agg' = [agg EXCEPT ![i] =
                      [repoInfo |-> data,
                       answer |-> answer,
                       stargazers |-> FilterSelf(answer.stargazers),
                       watchers |-> FilterSelf(answer.watchers),
                       topics |-> Coalesce(data.settings.topics, <<>>),
                       forks |-> FilterForks(answer.forks, repo),
                       issues |-> SortIssues(answer.issues),
                       commentCalls |-> CommentCalls(SortIssues(answer.issues)),
                       pages |-> pages]]
                /\ UNCHANGED errors
          \/ Caught(i)
    /\ UNCHANGED <<cmd, args, mainPc, projects, importBatchVars, flags, token,
                   projectInfos, printed, file, readInfos, listCalls>>

\* getProjectInfo, lines 88 to 109: the listComments calls are answered, or
\* one of them is rejected; issueComments is filled and the snapshot returned.
AggListComments(i) ==
    /\ mainPc = "aggregate"
    /\ aggPc[i] = "comments"
    /\ LET l == agg[i]
       IN \/ \E responses \in [1..Len(l.commentCalls) -> CommentListings] :
             \E order \in Orders(Len(l.commentCalls)) :
               /\ aggPc' = [aggPc EXCEPT ![i] = "resolved"]
               /\ agg' = [agg EXCEPT ![i] =
                     [answer |-> l.answer,
                      commentCalls |-> l.commentCalls,
                      comments |-> responses,
                      arrival |-> order,
                      result |->
                         [repo |-> l.repoInfo,
                          stargazers |-> l.stargazers,
                          watchers |-> l.watchers,
                          topics |-> l.topics,
                          forks |-> l.forks,
                          issues |-> l.issues,
                          issueComments |->
                             IssueCommentsOf(l.issues, PromiseAll(responses, order)),
                          pages |-> l.pages]]]
               /\ UNCHANGED errors
          \/ /\ Len(l.issues) > 0
             /\ Caught(i)
    /\ UNCHANGED <<cmd, args, mainPc, projects, importBatchVars, effects, flags, token,
                   projectInfos, printed, file, readInfos, listCalls>>

\* projectInfos.push(await getProjectInfo(...)): the callback takes the
\* snapshot and appends it.
AggPush(i) ==
    /\ mainPc = "aggregate"
    /\ aggPc[i] = "resolved"
    /\ projectInfos' = Append(projectInfos, agg[i].result)
    /\ aggPc' = [aggPc EXCEPT ![i] = "pushed"]
    /\ agg' = [agg EXCEPT ![i] = NoData]
    /\ UNCHANGED <<cmd, args, mainPc, projects, importBatchVars, errors, effects, flags,
                   token, printed, file, readInfos, listCalls>>

\* await Promise.all(projects.map(...)) is over.
AllCallbacksOver == \A i \in Callbacks : aggPc[i] \in {"pushed", "caught"}

FullNames(infos) == [i \in DOMAIN infos |-> infos[i].repo.full_name]

\* if (statusArg) sortedProjectInfos.forEach(printProjectInfo)
PrintStatus ==
    /\ mainPc = "aggregate"
    /\ AllCallbacksOver
    /\ "--status" \in flags
    /\ printed' = printed \o FullNames(SortBy(projectInfos))
    /\ mainPc' = "done"
    /\ UNCHANGED <<cmd, args, projects, importBatchVars, errors, effects, flags, token,
                   aggPc, agg, projectInfos, file, readInfos, listCalls>>

\* else if (writeStatusFileArg) await fs.writeJson("data/projects.json",
\*     {projects: sortedProjectInfos}, {spaces: 2})
WriteStatusFile ==
    /\ mainPc = "aggregate"
    /\ AllCallbacksOver
    /\ "--status" \notin flags
    /\ "--write-status-file" \in flags
    /\ effects' = effects \cup {"writeJson"}
    /\ \/ /\ file' = Some([projects |->
                              [i \in DOMAIN projectInfos |->
                                  ToJson(SortBy(projectInfos)[i])]])
          /\ mainPc' = "done"
       \/ /\ mainPc' = "rejected"
          /\ UNCHANGED file
    /\ UNCHANGED <<cmd, args, projects, importBatchVars, errors, flags, token, aggPc, agg,
                   projectInfos, printed, readInfos, listCalls>>

\* projectInfos = await fs.readJson("data/projects.json");
\* projectInfos.projects.filter((projectInfo) => args.length === 0 ||
\*     args.includes(projectInfo.repo)).forEach(printProjectInfo)
ReadStatusFile(Files) ==
    /\ mainPc = "readStatusFile"
    /\ effects' = effects \cup {"readJson"}
    /\ \/ \E content \in Files :
            /\ readInfos' = content
            /\ printed' = printed \o
                  FullNames(SelectSeq(content.projects,
                                      LAMBDA p :
                                          Len(args) = 0 \/ ArgsInclude(args, p.repo)))
            /\ mainPc' = "done"
       \/ /\ mainPc' = "rejected"
          /\ UNCHANGED <<printed, readInfos>>
    /\ UNCHANGED <<cmd, args, projects, importBatchVars, errors, flags, token, aggPc, agg,
                   projectInfos, file, listCalls>>

(***************************************************************************)
(* Specification.                                                          *)
(***************************************************************************)
Next ==
    \/ FetchAllProjects
    \/ UseArgs
    \/ CallOperation
    \/ OperationReturned
    \/ OperationThrew
    \/ MainReturn
    \/ GetRepo
    \/ FanOut
    \/ ListComments
    \/ CreateRepo
    \/ StartImport(PlainTexts)
    \/ LoopSleep
    \/ GetImportStatus(PlainTexts)
    \/ LoopExit
    \/ UpdateRepo
    \/ ReplaceTopics
    \/ SetPrivate
    \/ DeleteRepo

Spec == Init /\ [][Next]_vars

\* Nothing runs yet: no operation, no callback, nothing logged or printed.
Idle ==
    /\ projects = <<>>
    /\ idx = 0
    /\ started = <<>>
    /\ pc = "none"
    /\ repoInfo = NoData
    /\ fanout = NoData
    /\ projectInfo = NoData
    /\ importStatus = NoStatus
    /\ previousImportStatus = NoStatus
    /\ importStatusText = Null
    /\ statusLine = NoData
    /\ loopLines = 0
    /\ calls = <<>>
    /\ errors = <<>>
    /\ aggPc = <<>>
    /\ agg = <<>>
    /\ projectInfos = <<>>
    /\ printed = <<>>
    /\ file = Null
    /\ readInfos = NoData
    /\ listCalls = <<>>

\* The aggregation batch and the print of the persisted file, from the
\* state of main once it has read the token, one of --status,
\* --write-status-file, --read-status-file given (line 125).
StatusInit ==
    /\ flags \in {{"--status"}, {"--write-status-file"}, {"--read-status-file"}}
    /\ cmd = Branch(flags)
    /\ args \in ArgLists
    /\ mainPc = BranchEntry(cmd)
    /\ token = "read"
    /\ effects = {"readFile"}
    /\ dstRepos \in InitialDstRepos
    /\ Idle

StatusNext ==
    \/ StatusCheckParams
    \/ StatusFetchAllProjects(RepoListings)
    \/ StatusUseArgs
    \/ \E i \in Callbacks : AggGetRepo(i, {SrcAccount}, BatchSettings)
    \/ \E i \in Callbacks : AggFanOut(i, BatchFanOuts)
    \/ \E i \in Callbacks : AggListComments(i)
    \/ \E i \in Callbacks : AggPush(i)
    \/ PrintStatus
    \/ WriteStatusFile
    \/ ReadStatusFile(FileContents)

StatusSpec == StatusInit /\ [][StatusNext]_vars

\* The aggregation of one repository, with every answer of the service.
SnapshotInit ==
    /\ flags \in {{"--status"}, {"--write-status-file"}}
    /\ cmd = Branch(flags)
    /\ args \in {l \in ArgLists : Len(l) <= 1}
    /\ mainPc = BranchEntry(cmd)
    /\ token = "read"
    /\ effects = {"readFile"}
    /\ dstRepos = {}
    /\ Idle

SnapshotNext ==
    \/ StatusCheckParams
    \/ StatusFetchAllProjects({l \in RepoListings : Len(l) = 1})
    \/ StatusUseArgs
    \/ \E i \in Callbacks : AggGetRepo(i, {SrcAccount}, RepoSettings)
    \/ \E i \in Callbacks : AggFanOut(i, SnapshotFanOuts)
    \/ \E i \in Callbacks : AggListComments(i)
    \/ \E i \in Callbacks : AggPush(i)
    \/ PrintStatus
    \/ WriteStatusFile

SnapshotSpec == SnapshotInit /\ [][SnapshotNext]_vars

\* The import of one repository, the answers of the import API with and
\* without a status text.
ImportInit ==
    /\ cmd = "import"
    /\ flags = {"--import"}
    /\ args \in {l \in ArgLists : Len(l) = 1}
    /\ mainPc = BranchEntry(cmd)
    /\ token = "read"
    /\ effects = {"readFile"}
    /\ dstRepos \in InitialDstRepos
    /\ Idle

ImportNext ==
    \/ UseArgs
    \/ CallOperation
    \/ OperationReturned
    \/ OperationThrew
    \/ MainReturn
    \/ GetRepo
    \/ FanOut
    \/ ListComments
    \/ CreateRepo
    \/ StartImport(StatusTexts)
    \/ LoopSleep
    \/ GetImportStatus(StatusTexts)
    \/ LoopExit
    \/ UpdateRepo
    \/ ReplaceTopics
    \/ SetPrivate

ImportSpec == ImportInit /\ [][ImportNext]_vars

\* The run of one name into an empty destination account when every step it
\* waits for comes: each remote call answers or fails, and the timer of the
\* sleep fires.
FairImportInit == ImportInit /\ dstRepos = {}

FairImportNext ==
    \/ UseArgs
    \/ CallOperation
    \/ OperationReturned
    \/ OperationThrew
    \/ MainReturn
    \/ GetRepo
    \/ FanOut
    \/ ListComments
    \/ CreateRepo
    \/ StartImport(PlainTexts)
    \/ LoopSleep
    \/ GetImportStatus(PlainTexts)
    \/ LoopExit
    \/ UpdateRepo
    \/ ReplaceTopics
    \/ SetPrivate

FairImportSpec == FairImportInit /\ [][FairImportNext]_vars /\ WF_vars(FairImportNext)

\* The aggregation batch of --status when the repositories answered have
\* owners and names of either case (a repository that was transferred is
\* answered with its new owner).
SortOwners == {"alice", "Bob"}
SortListings == DistinctSeqs({"r1", "R2", "r3"}, 3)

SortInit ==
    /\ flags = {"--status"}
    /\ cmd = Branch(flags)
    /\ args \in ArgLists
    /\ mainPc = BranchEntry(cmd)
    /\ token = "read"
    /\ effects = {"readFile"}
    /\ dstRepos = {}
    /\ Idle

SortNext ==
    \/ StatusCheckParams
    \/ StatusFetchAllProjects(SortListings)
    \/ StatusUseArgs
    \/ \E i \in Callbacks : AggGetRepo(i, SortOwners, {BaseSettings})
    \/ \E i \in Callbacks : AggFanOut(i, {FanOutAnswer(<<>>, <<>>, <<>>, <<>>)})
    \/ \E i \in Callbacks : AggListComments(i)
    \/ \E i \in Callbacks : AggPush(i)
    \/ PrintStatus

SortSpec == SortInit /\ [][SortNext]_vars

\* main is run again, with --read-status-file, after a run that wrote
\* data/projects.json: a new process (nothing of the run before is left but
\* the file), at line 125 as in StatusInit.
ReadBackRun ==
    /\ mainPc = "done"
    /\ flags = {"--write-status-file"}
    /\ flags' = {"--read-status-file"}
    /\ cmd' = Branch(flags')
    /\ args' \in ArgLists
    /\ mainPc' = BranchEntry(cmd')
    /\ projects' = <<>>
    /\ errors' = <<>>
    /\ aggPc' = <<>>
    /\ agg' = <<>>
    /\ projectInfos' = <<>>
    /\ printed' = <<>>
    /\ effects' = {"readFile"}
    /\ listCalls' = <<>>
    /\ UNCHANGED <<importBatchVars, token, file, readInfos>>

\* --write-status-file, then --read-status-file of the file it wrote.
RoundTripInit ==
    /\ flags = {"--write-status-file"}
    /\ cmd = Branch(flags)
    /\ args = <<>>
    /\ mainPc = BranchEntry(cmd)
    /\ token = "read"
    /\ effects = {"readFile"}
    /\ dstRepos = {}
    /\ Idle

RoundTripNext ==
    \/ StatusCheckParams
    \/ StatusFetchAllProjects(RepoListings)
    \/ \E i \in Callbacks : AggGetRepo(i, {SrcAccount}, BatchSettings)
    \/ \E i \in Callbacks : AggFanOut(i, BatchFanOuts)
    \/ \E i \in Callbacks : AggListComments(i)
    \/ \E i \in Callbacks : AggPush(i)
    \/ WriteStatusFile
    \/ ReadBackRun
    \/ ReadStatusFile(file)

RoundTripSpec == RoundTripInit /\ [][RoundTripNext]_vars

\* main from its first line, with any set of action flags.
MainInit ==
    /\ flags \in SUBSET ActionFlags
    /\ cmd = "none"
    /\ args \in ArgLists
    /\ mainPc = "start"
    /\ token = "unread"
    /\ effects = {}
    /\ dstRepos \in InitialDstRepos
    /\ Idle

MainNext ==
    \/ ParseArgs
    \/ ReadToken
    \/ Dispatch
    \/ Next
    \/ StatusNext

MainSpec == MainInit /\ [][MainNext]_vars

(***************************************************************************)
(* Vocabulary of the properties.                                           *)
(***************************************************************************)
CallIdx == 1..Len(calls)
CountOp(op) == Cardinality({i \in CallIdx : calls[i].op = op})

\* An operation is running, or has just returned or thrown.
RunExists == pc # "none"
\* The name that operation was called with.
RunName == projects[idx]

\* The first repos.update of importProject carries the settings.
IsSettingsUpdate(c) == c.op = "repos.update" /\ "default_branch" \in DOMAIN c.arg
\* The second one sets the repository private.
IsSetPrivate(c) == c.op = "repos.update" /\ "private" \in DOMAIN c.arg

ReconcileOps ==
    {"repos.update", "repos.replaceAllTopics", "repos.createPagesSite",
     "repos.updateInformationAboutPagesSite"}
Reconciled == \E i \in CallIdx : calls[i].op \in ReconcileOps

\* importProject has left its while loop.
LoopLeft ==
    /\ cmd = "import"
    /\ \/ pc \in {"update", "topics", "private", "returned"}
       \/ Reconciled

(***************************************************************************)
(* C1: in importProject, when the poll loop ends on one of the defined     *)
(* error statuses (auth_failed, error, detection_needs_auth,               *)
(* detection_found_nothing, detection_found_multiple), no reconciliation   *)
(* call (update-repository, replace-topics, create-pages-site,             *)
(* set-pages-cname, set-private) is in the trace of that run.              *)
(***************************************************************************)
C1_ErrorStatuses ==
    {"auth_failed", "error", "detection_needs_auth", "detection_found_nothing",
     "detection_found_multiple"}

C1_NoReconciliationAfterErrorStatus ==
    (cmd = "import" /\ importStatus \in C1_ErrorStatuses) => ~Reconciled

\* An import that polled once, observed "error" and returned.
C1_Witness ==
    /\ cmd = "import"
    /\ pc = "returned"
    /\ importStatus = "error"
    /\ Polls = 1

(***************************************************************************)
(* C2: reconciliation calls are issued only in runs whose last observed    *)
(* import status is "complete"; a loop that ends on a status outside the   *)
(* in-progress, complete and error sets does not reconcile.                *)
(***************************************************************************)
C2_ReconciliationOnlyOnComplete ==
    (cmd = "import" /\ Reconciled) => importStatus = "complete"

(***************************************************************************)
(* C3: the import performs exactly k sleep+repoll cycles, k the index of   *)
(* the first observed status that is not detecting, importing, mapping or  *)
(* pushing: every get-import-status directly follows one sleep, the status *)
(* observed before each poll was in progress, and the loop is left only    *)
(* with a status that is not in progress; after complete the run           *)
(* reconciles, after an error status it does not.                          *)
(***************************************************************************)
C3_InProgress == {"detecting", "importing", "mapping", "pushing"}

C3_ExactlyKCycles ==
    /\ \A i \in CallIdx :
          /\ calls[i].op = "migrations.getImportStatus" =>
                i > 1 /\ calls[i - 1].op = "sleep"
          /\ calls[i].op = "sleep" =>
                /\ i > 1
                /\ calls[i - 1].op \in {"migrations.startImport", "migrations.getImportStatus"}
                /\ calls[i - 1].ok
                /\ IF i = Len(calls) THEN pc = "poll"
                   ELSE calls[i + 1].op = "migrations.getImportStatus"
    /\ Polls >= 1 => previousImportStatus \in C3_InProgress
    /\ pc = "poll" => importStatus \in C3_InProgress
    /\ LoopLeft => importStatus \notin C3_InProgress
    /\ (cmd = "import" /\ pc = "returned") =>
          /\ importStatus = "complete" => Reconciled
          /\ importStatus = "error" => ~Reconciled

\* [.., importing, complete]: two cycles, then reconciliation.
C3_Witness ==
    /\ cmd = "import"
    /\ Polls = 2
    /\ CountOp("sleep") = 2
    /\ previousImportStatus = "importing"
    /\ importStatus = "complete"
    /\ Reconciled

(***************************************************************************)
(* C4: in every import run the remote calls occur in the order source      *)
(* metadata fetch, create-repository of <name>-clone, start-import on that *)
(* clone with the source repository's URL, get-import-status polls,        *)
(* reconciliation; a call is issued only after the calls before it         *)
(* succeeded (the calls of one Promise.all are issued together), and       *)
(* create-repository and start-import are issued at most once.             *)
(***************************************************************************)
C4_FanOutOps ==
    {"activity.listStargazersForRepo", "activity.listWatchersForRepo",
     "repos.listForks", "issues.listForRepo", "repos.getPages"}

C4_SourceOps == {"repos.get", "issues.listComments"} \cup C4_FanOutOps

C4_Phase(c) ==
    IF c.op \in C4_SourceOps THEN 1
    ELSE IF c.op = "repos.createForAuthenticatedUser" THEN 2
    ELSE IF c.op = "migrations.startImport" THEN 3
    ELSE IF c.op \in {"sleep", "migrations.getImportStatus"} THEN 4
    ELSE 5

C4_IssuedTogether(c, d) ==
    \/ c.op \in C4_FanOutOps /\ d.op \in C4_FanOutOps
    \/ c.op = "issues.listComments" /\ d.op = "issues.listComments"

C4_CallOrder ==
    cmd = "import" =>
        /\ \A i \in CallIdx :
              /\ i < Len(calls) => C4_Phase(calls[i]) <= C4_Phase(calls[i + 1])
              /\ ~calls[i].ok =>
                    \A j \in (i + 1)..Len(calls) : C4_IssuedTogether(calls[i], calls[j])
              /\ i = 1 => calls[i].op = "repos.get"
              /\ calls[i].op = "repos.createForAuthenticatedUser" =>
                    /\ \A j \in (i + 1)..Len(calls) : calls[j].op # calls[i].op
                    /\ calls[i].owner = "patlillis"
                    /\ calls[i].repo = RunName \o "-clone"
              /\ calls[i].op = "migrations.startImport" =>
                    /\ \A j \in (i + 1)..Len(calls) : calls[j].op # calls[i].op
                    /\ calls[i].owner = "patlillis"
                    /\ calls[i].repo = RunName \o "-clone"
                    /\ calls[i].arg.vcs_url = "https://github.com/patlillis-xx/" \o RunName
              /\ calls[i].op \in C4_SourceOps =>
                    calls[i].owner = "patlillis-xx" /\ calls[i].repo = RunName

\* A run that went through every phase.
C4_Witness ==
    /\ cmd = "import"
    /\ pc = "returned"
    /\ importStatus = "complete"
    /\ Polls >= 1
    /\ CountOp("repos.createForAuthenticatedUser") = 1
    /\ CountOp("migrations.startImport") = 1
    /\ \E i \in CallIdx : IsSetPrivate(calls[i])

(***************************************************************************)
(* C5: if create-repository fails, the run issues no start-import, no poll *)
(* and no reconciliation call, does not call create-repository again, and  *)
(* the failure reaches main's catch as an error of that repository.        *)
(***************************************************************************)
C5_CreateFailed ==
    \E i \in CallIdx : calls[i].op = "repos.createForAuthenticatedUser" /\ ~calls[i].ok

C5_CreateFailureIsFatal ==
    /\ [](C5_CreateFailed =>
            /\ calls[Len(calls)].op = "repos.createForAuthenticatedUser"
            /\ CountOp("repos.createForAuthenticatedUser") = 1
            /\ pc = "thrown")
    /\ [][C5_CreateFailed =>
            /\ errors' = Append(errors, projects[idx])
            /\ mainPc' = "loop"
            /\ idx' = idx + 1]_vars

\* The clone existed and create-repository failed: the run has thrown.
C5_Witness ==
    /\ cmd = "import"
    /\ pc = "thrown"
    /\ calls[Len(calls)].op = "repos.createForAuthenticatedUser"
    /\ ~calls[Len(calls)].ok
    /\ calls[Len(calls)].repo \in dstRepos

(***************************************************************************)
(* C6: after an import whose status is complete, the update-repository     *)
(* call on the destination clone carries default_branch, description,      *)
(* homepage, has_issues, has_projects and has_wiki of the source           *)
(* repository's metadata fetched at the start of the run.                  *)
(***************************************************************************)
C6_UpdateCopiesSettings ==
    (cmd = "import" /\ importStatus = "complete") =>
        /\ \A i \in CallIdx :
              IsSettingsUpdate(calls[i]) =>
                 /\ calls[i].owner = "patlillis"
                 /\ calls[i].repo = RunName \o "-clone"
                 /\ calls[i].arg.default_branch = projectInfo.repo.settings.default_branch
                 /\ calls[i].arg.description = projectInfo.repo.settings.description
                 /\ calls[i].arg.homepage = projectInfo.repo.settings.homepage
                 /\ calls[i].arg.has_issues = projectInfo.repo.settings.has_issues
                 /\ calls[i].arg.has_projects = projectInfo.repo.settings.has_projects
                 /\ calls[i].arg.has_wiki = projectInfo.repo.settings.has_wiki
        /\ pc \in {"topics", "private", "returned"} =>
              \E i \in CallIdx : IsSettingsUpdate(calls[i]) /\ calls[i].ok

\* The settings of a source with has_wiki false were copied.
C6_Witness ==
    /\ cmd = "import"
    /\ importStatus = "complete"
    /\ pc = "topics"
    /\ projectInfo.repo.settings.has_wiki = FALSE
    /\ \E i \in CallIdx : IsSettingsUpdate(calls[i]) /\ calls[i].arg.has_wiki = FALSE

(***************************************************************************)
(* C7: replace-topics is never issued when the source's topic list is      *)
(* empty or absent; when it is non-empty a successful import issues it     *)
(* exactly once, on the destination clone, with the source's topics in the *)
(* same order.                                                             *)
(***************************************************************************)
C7_SourceTopics ==
    IF projectInfo.repo.settings.topics = {} THEN <<>>
    ELSE CHOOSE t \in projectInfo.repo.settings.topics : TRUE

C7_ReplaceTopics ==
    (cmd = "import" /\ projectInfo # NoData) =>
        /\ C7_SourceTopics = <<>> => CountOp("repos.replaceAllTopics") = 0
        /\ CountOp("repos.replaceAllTopics") <= 1
        /\ \A i \in CallIdx :
              calls[i].op = "repos.replaceAllTopics" =>
                 /\ calls[i].owner = "patlillis"
                 /\ calls[i].repo = RunName \o "-clone"
                 /\ calls[i].arg.names = C7_SourceTopics
        /\ (pc = "returned" /\ importStatus = "complete" /\ C7_SourceTopics # <<>>) =>
              CountOp("repos.replaceAllTopics") = 1

\* topics = ["a", "b"]: one replace-topics with exactly ["a", "b"].
C7_Witness ==
    /\ cmd = "import"
    /\ pc = "returned"
    /\ importStatus = "complete"
    /\ projectInfo.repo.settings.topics = {<<"a", "b">>}
    /\ CountOp("repos.replaceAllTopics") = 1
    /\ \E i \in CallIdx :
          calls[i].op = "repos.replaceAllTopics" /\ calls[i].arg.names = <<"a", "b">>

(***************************************************************************)
(* C8: in a successful import of a source that has Pages enabled,          *)
(* create-pages-site is issued on the destination clone with the source's  *)
(* Pages branch and directory, and set-pages-cname is issued if and only   *)
(* if the source's Pages configuration has a CNAME; with Pages disabled    *)
(* neither call is issued.                                                 *)
(***************************************************************************)
C8_SourcePages == CHOOSE p \in projectInfo.pages : TRUE

C8_PagesReconciled ==
    (cmd = "import" /\ pc = "returned" /\ importStatus = "complete") =>
        IF projectInfo.repo.settings.has_pages
           THEN /\ \E i \in CallIdx :
                      /\ calls[i].op = "repos.createPagesSite"
                      /\ calls[i].owner = "patlillis"
                      /\ calls[i].repo = RunName \o "-clone"
                      /\ calls[i].arg.source.branch = C8_SourcePages.source.branch
                      /\ calls[i].arg.source.path = C8_SourcePages.source.directory
                /\ C8_SourcePages.cname # {} <=>
                      \E i \in CallIdx :
                          calls[i].op = "repos.updateInformationAboutPagesSite"
           ELSE /\ CountOp("repos.createPagesSite") = 0
                /\ CountOp("repos.updateInformationAboutPagesSite") = 0

(***************************************************************************)
(* C9: an import run never issues delete-repository; when the import ends  *)
(* on an error status, or a step fails after create-repository succeeded,  *)
(* the created <name>-clone stays in the destination account.              *)
(***************************************************************************)
C9_NoRollback ==
    /\ [](cmd = "import" =>
            /\ CountOp("repos.delete") = 0
            /\ \A i \in CallIdx :
                  (calls[i].op = "repos.createForAuthenticatedUser" /\ calls[i].ok) =>
                      RunName \o "-clone" \in dstRepos)
    /\ [][cmd = "import" => dstRepos \subseteq dstRepos']_vars

\* The import ended on an error status and returned: the clone is there.
C9_Witness ==
    /\ cmd = "import"
    /\ pc = "returned"
    /\ importStatus = "detection_found_nothing"
    /\ \E i \in CallIdx : calls[i].op = "repos.createForAuthenticatedUser" /\ calls[i].ok
    /\ RunName \o "-clone" \in dstRepos

(***************************************************************************)
(* C10: revertImport issues exactly one remote call, delete-repository on  *)
(* the destination account's <name>-clone, and nothing else; if the delete *)
(* fails the error propagates to the caller.                               *)
(***************************************************************************)
C10_RevertIsOneDelete ==
    (cmd = "revert" /\ RunExists) =>
        /\ Len(calls) <= 1
        /\ pc = "delete" <=> calls = <<>>
        /\ \A i \in CallIdx :
              /\ calls[i].op = "repos.delete"
              /\ calls[i].owner = "patlillis"
              /\ calls[i].repo = RunName \o "-clone"
              /\ pc = "returned" <=> calls[i].ok
              /\ pc = "thrown" <=> ~calls[i].ok

\* The clone did not exist: the delete failed and revertImport has thrown.
C10_Witness ==
    /\ cmd = "revert"
    /\ pc = "thrown"
    /\ Len(calls) = 1
    /\ ~calls[1].ok
    /\ calls[1].repo \notin dstRepos

(***************************************************************************)
(* C11: in the import and revert batches an operation that throws is       *)
(* logged and the operation is still invoked for every remaining name: the *)
(* names the operation was invoked with are a prefix of the list while the *)
(* batch runs and the whole list, each name once and in order, when main   *)
(* returns; every thrown operation adds one log entry for its name.        *)
(***************************************************************************)
C11_EveryNameStarted ==
    /\ [](mainPc \in {"loop", "done"} =>
            /\ Len(started) <= Len(projects)
            /\ \A i \in 1..Len(started) : started[i] = projects[i]
            /\ mainPc = "done" => started = projects
            /\ Len(errors) <= Len(started)
            /\ \A i \in 1..Len(errors) : \E j \in 1..Len(started) : errors[i] = started[j])
    /\ [][pc = "thrown" =>
            /\ Len(errors') = Len(errors) + 1
            /\ errors'[Len(errors')] = started[Len(started)]]_vars

\* Two names: the operation threw for the first one, was invoked for the
\* second one and returned, and the batch is over.
C11_Witness ==
    /\ mainPc = "done"
    /\ Len(projects) = 2
    /\ started = projects
    /\ errors = <<projects[1]>>

(***************************************************************************)
(* C13: in the import batch an import whose poll loop stays on in-progress *)
(* statuses blocks only its own repository: while one import sleeps and    *)
(* polls, the imports of all the other names of the list have been         *)
(* started.                                                                *)
(***************************************************************************)
C13_PollingBlocksOnlyItself ==
    (cmd = "import" /\ pc \in {"loop", "poll"} /\ importStatus \in C3_InProgress) =>
        started = projects

(***************************************************************************)
(* C14: every write of an import run for name n (create, start-import,     *)
(* update-repository, replace-topics, Pages calls, set-private) targets    *)
(* <destination-account>/n-clone; what the run calls on the source account *)
(* are reads of n; the only repository a run adds to the destination       *)
(* account is n-clone, which is no name of the list, and the runs of two   *)
(* names of the list have different targets.                               *)
(***************************************************************************)
C14_WriteOps ==
    {"repos.createForAuthenticatedUser", "migrations.startImport", "repos.update",
     "repos.replaceAllTopics", "repos.createPagesSite",
     "repos.updateInformationAboutPagesSite", "repos.delete"}

C14_Target(n) == <<"patlillis", n \o "-clone">>

C14_WritesOnlyToClone ==
    /\ [](cmd = "import" =>
            /\ \A i \in CallIdx :
                  /\ calls[i].op \in C14_WriteOps =>
                        <<calls[i].owner, calls[i].repo>> = C14_Target(started[Len(started)])
                  /\ calls[i].owner = "patlillis-xx" =>
                        calls[i].op \in C4_SourceOps /\ calls[i].repo = started[Len(started)]
                  /\ calls[i].op \notin C14_WriteOps \cup C4_SourceOps =>
                        calls[i].op \in {"sleep", "migrations.getImportStatus"}
            /\ \A i, j \in 1..Len(started) :
                  i # j => C14_Target(started[i]) # C14_Target(started[j])
            /\ \A i \in 1..Len(started) :
                  \A j \in 1..Len(projects) : C14_Target(started[i])[2] # projects[j])
    /\ [][(cmd = "import" /\ dstRepos' # dstRepos) =>
            dstRepos' = dstRepos \cup {started[Len(started)] \o "-clone"}]_vars

\* Both names of the list were imported: each run created and set private
\* its own clone.
C14_Witness ==
    /\ cmd = "import"
    /\ Len(started) = 2
    /\ pc = "returned"
    /\ importStatus = "complete"
    /\ dstRepos = {started[1] \o "-clone", started[2] \o "-clone"}
    /\ \E i \in CallIdx : IsSetPrivate(calls[i]) /\ calls[i].repo = started[2] \o "-clone"

(***************************************************************************)
(* Vocabulary of the aggregation batch.                                    *)
(***************************************************************************)
\* The callbacks whose getProjectInfo has returned its snapshot and that
\* have not pushed it yet: what the service answered is still at hand.
Resolved == {i \in 1..Len(aggPc) : aggPc[i] = "resolved"}

\* out is what is left of in when the entries that satisfy Dropped are
\* taken out: nothing else goes, nothing comes, the order stays.
IsRestOf(out, in, Dropped(_)) ==
    /\ \A k \in 1..Len(out) : ~Dropped(out[k])
    /\ \E f \in [1..Len(out) -> 1..Len(in)] :
          /\ \A k \in 1..Len(out) : in[f[k]] = out[k]
          /\ \A k \in 1..Len(out) : k > 1 => f[k - 1] < f[k]
          /\ \A j \in 1..Len(in) :
                (\A k \in 1..Len(out) : f[k] # j) => Dropped(in[j])

(***************************************************************************)
(* C12: in the aggregation batch, whatever aggregations throw and in       *)
(* whatever order the aggregations complete, the result list holds exactly *)
(* one entry for each name whose aggregation succeeded and none for a name *)
(* whose aggregation threw, one error is logged for each name that threw,  *)
(* and the result list only grows by appending.                            *)
(***************************************************************************)
C12_Entries(name) ==
    {k \in 1..Len(projectInfos) : projectInfos[k].repo.name = name}
C12_Logged(name) == {k \in 1..Len(errors) : errors[k] = name}

C12_OneEntryPerSuccess ==
    /\ [](\A i \in 1..Len(aggPc) :
            /\ Cardinality(C12_Entries(projects[i])) =
                  IF aggPc[i] = "pushed" THEN 1 ELSE 0
            /\ Cardinality(C12_Logged(projects[i])) =
                  IF aggPc[i] = "caught" THEN 1 ELSE 0)
    /\ [](mainPc = "done" /\ cmd = "status" =>
            /\ \A i \in 1..Len(aggPc) : aggPc[i] \in {"pushed", "caught"}
            /\ Len(projectInfos) + Len(errors) = Len(projects))
    /\ [][/\ Len(projectInfos') >= Len(projectInfos)
          /\ \A k \in 1..Len(projectInfos) : projectInfos'[k] = projectInfos[k]]_vars

\* r1 threw and r2 succeeded: the result list is exactly [r2].
C12_Witness ==
    /\ mainPc = "done"
    /\ projects = <<"r1", "r2">>
    /\ aggPc = <<"caught", "pushed">>
    /\ Len(projectInfos) = 1
    /\ projectInfos[1].repo.name = "r2"
    /\ errors = <<"r1">>

(***************************************************************************)
(* C15: with no action flag or more than one, main reports a usage error   *)
(* and returns: token.txt is not read, no remote call is issued, the       *)
(* snapshot file is neither read nor written, nothing is printed.  With    *)
(* exactly one action flag only that action's branch runs.                 *)
(***************************************************************************)
C15_Given ==
    Cardinality(flags \cap {"--import", "--revert-import", "--status",
                            "--write-status-file", "--read-status-file"})

C15_NothingDone ==
    /\ effects = {}
    /\ token = "unread"
    /\ projects = <<>> /\ started = <<>> /\ calls = <<>>
    /\ aggPc = <<>> /\ projectInfos = <<>>
    /\ printed = <<>> /\ file = {}

C15_ExactlyOneAction ==
    /\ C15_Given = 0 => mainPc \in {"start", "noAction"} /\ C15_NothingDone
    /\ C15_Given > 1 => mainPc \in {"start", "multipleActions"} /\ C15_NothingDone
    /\ mainPc \in {"noAction", "multipleActions"} => C15_Given # 1
    /\ C15_Given = 1 =>
          /\ mainPc \notin {"noAction", "multipleActions"}
          /\ flags \cap {"--import", "--revert-import"} = {} =>
                started = <<>> /\ calls = <<>> /\ pc = "none"
          /\ flags \cap {"--status", "--write-status-file"} = {} =>
                aggPc = <<>> /\ projectInfos = <<>>
          /\ "--write-status-file" \notin flags => "writeJson" \notin effects /\ file = {}
          /\ "--read-status-file" \notin flags => "readJson" \notin effects
          /\ flags \cap {"--status", "--read-status-file"} = {} => printed = <<>>
          /\ "--import" \notin flags => \A i \in CallIdx : calls[i].op = "repos.delete"
          /\ "--revert-import" \notin flags => \A i \in CallIdx : calls[i].op # "repos.delete"

\* --import and --status together: main has reported the error.
C15_Witness ==
    /\ flags = {"--import", "--status"}
    /\ mainPc = "multipleActions"

(***************************************************************************)
(* C16: if the read of the token file fails, main returns without having   *)
(* issued any remote call, whichever action was selected; a remote call is *)
(* only ever issued once the token has been read.                          *)
(***************************************************************************)
C16_NoCallWithoutToken ==
    /\ token = "failed" =>
          /\ mainPc = "tokenError"
          /\ "remote" \notin effects
          /\ calls = <<>> /\ projects = <<>> /\ aggPc = <<>>
    /\ "remote" \in effects => token = "read"

\* --write-status-file was selected and the read of token.txt failed.
C16_Witness ==
    /\ flags = {"--write-status-file"}
    /\ token = "failed"
    /\ mainPc = "tokenError"

(***************************************************************************)
(* C17: the issueComments mapping of the snapshot getProjectInfo returns   *)
(* has a key for issue N if and only if the list-comments call for issue N *)
(* answered at least one comment.                                          *)
(***************************************************************************)
C17_KeyIffComments ==
    \A i \in Resolved :
        \A k \in 1..Len(agg[i].result.issues) :
            agg[i].result.issues[k] \in DOMAIN agg[i].result.issueComments
                <=> Len(agg[i].comments[k]) >= 1

(***************************************************************************)
(* C18: the snapshot's stargazers and watchers are the lists the service   *)
(* answered with exactly the entries whose login is "patlillis" or         *)
(* "patlillis-xx" taken out: no other entry is taken out, none is added,   *)
(* and the entries that stay keep their order.                             *)
(***************************************************************************)
C18_Reserved(entry) == entry.login \in {"patlillis", "patlillis-xx"}

C18_SelfExclusion ==
    \A i \in Resolved :
        /\ IsRestOf(agg[i].result.stargazers, agg[i].answer.stargazers, C18_Reserved)
        /\ IsRestOf(agg[i].result.watchers, agg[i].answer.watchers, C18_Reserved)

\* alice, patlillis-xx, bob starred: the snapshot has alice, bob.
C18_Witness ==
    \E i \in Resolved :
        /\ [k \in 1..Len(agg[i].answer.stargazers) |-> agg[i].answer.stargazers[k].login]
              = <<"alice", "patlillis-xx", "bob">>
        /\ [k \in 1..Len(agg[i].result.stargazers) |-> agg[i].result.stargazers[k].login]
              = <<"alice", "bob">>

(***************************************************************************)
(* C19: the snapshot's fork list is the list the service answered (full    *)
(* names pairwise distinct) without the entry whose full name is           *)
(* <destination-account>/<repo-name>, if there is one: at most one entry   *)
(* goes, every other fork stays, in order, and that full name is never in  *)
(* the snapshot.                                                           *)
(***************************************************************************)
C19_ForkExclusion ==
    \A i \in Resolved :
        LET C19_IsClone(entry) ==
                entry.full_name = "patlillis/" \o agg[i].result.repo.name
        IN /\ IsRestOf(agg[i].result.forks, agg[i].answer.forks, C19_IsClone)
           /\ Len(agg[i].answer.forks) - Len(agg[i].result.forks) \in {0, 1}

\* Forks bob/r1, patlillis/r1, patlillis/r2 of r1: patlillis/r1 goes.
C19_Witness ==
    \E i \in Resolved :
        /\ agg[i].result.repo.name = "r1"
        /\ [k \in 1..Len(agg[i].answer.forks) |-> agg[i].answer.forks[k].full_name]
              = <<"bob/r1", "patlillis/r1", "patlillis/r2">>
        /\ [k \in 1..Len(agg[i].result.forks) |-> agg[i].result.forks[k].full_name]
              = <<"bob/r1", "patlillis/r2">>

(***************************************************************************)
(* C20: whatever the order in which list-issues answers issues with unique *)
(* numbers, the snapshot's issues are the same issues, each once, in       *)
(* strictly ascending order of their numbers.                              *)
(***************************************************************************)
C20_IssuesSorted ==
    \A i \in Resolved :
        LET listed == agg[i].answer.issues
            issues == agg[i].result.issues
        IN /\ Len(issues) = Len(listed)
           /\ {issues[k] : k \in 1..Len(issues)} = {listed[k] : k \in 1..Len(listed)}
           /\ \A k \in 1..Len(issues) : k > 1 => issues[k - 1] < issues[k]

\* Listed 3, 1, 2: the snapshot has 1, 2, 3.
C20_Witness ==
    \E i \in Resolved :
        /\ agg[i].answer.issues = <<3, 1, 2>>
        /\ agg[i].result.issues = <<1, 2, 3>>


(***************************************************************************)
(* C21: if any sub-query of an aggregation fails (repository metadata; one *)
(* of stargazers, watchers, forks, issues, Pages; one comment fetch),      *)
(* getProjectInfo fails as a whole: the callback ends in its catch at that *)
(* step and stays there, it holds no snapshot, nothing is appended to the  *)
(* result list for that name, and every snapshot that exists has all of    *)
(* its eight fields.                                                       *)
(***************************************************************************)
C21_SnapshotFields ==
    {"repo", "stargazers", "watchers", "topics", "forks", "issues",
     "issueComments", "pages"}

C21_NoPartialSnapshot ==
    /\ [](\A i \in 1..Len(aggPc) :
            /\ aggPc[i] = "caught" => agg[i] = NoData
            /\ "result" \in DOMAIN agg[i] =>
                  /\ aggPc[i] = "resolved"
                  /\ DOMAIN agg[i].result = C21_SnapshotFields)
    /\ [](\A k \in 1..Len(projectInfos) :
            DOMAIN projectInfos[k] = C21_SnapshotFields)
    /\ [][\A i \in 1..Len(aggPc) :
            /\ (aggPc[i] # "caught" /\ aggPc'[i] = "caught") =>
                  /\ aggPc[i] \in {"getRepo", "fanout", "comments"}
                  /\ projectInfos' = projectInfos
            /\ aggPc[i] = "caught" =>
                  /\ aggPc'[i] = "caught"
                  /\ \A k \in 1..Len(projectInfos') :
                        projectInfos'[k].repo.name # projects[i]]_vars

\* r1 (with Pages and one issue) was aggregated and appended; a sub-query of
\* r2 failed: r2's callback is in its catch and the list holds r1 alone.
C21_Witness ==
    /\ mainPc = "aggregate"
    /\ projects = <<"r1", "r2">>
    /\ aggPc = <<"pushed", "caught">>
    /\ agg[2] = NoData
    /\ errors = <<"r2">>
    /\ Len(projectInfos) = 1
    /\ projectInfos[1].repo.name = "r1"
    /\ projectInfos[1].pages # Null
    /\ projectInfos[1].issues = <<1>>


(***************************************************************************)
(* C22: --status presents the snapshots of the result list, each once,     *)
(* ordered by owner login and then by repository name, letter case         *)
(* ignored in both, whatever the order of the names and the order in which *)
(* the aggregations completed (owners Bob and alice: alice, then Bob).     *)
(***************************************************************************)
\* The strings of the batch in alphabetical order, case ignored.
C22_Alphabet ==
    <<{"alice"}, {"bob", "Bob"}, {"patlillis-xx"}, {"r1", "R1"}, {"r2", "R2"},
      {"r3"}>>
C22_Pos(s) == CHOOSE k \in 1..Len(C22_Alphabet) : s \in C22_Alphabet[k]

C22_NotAfter(a, b) ==
    \/ C22_Pos(a.owner) < C22_Pos(b.owner)
    \/ /\ C22_Pos(a.owner) = C22_Pos(b.owner)
       /\ C22_Pos(a.name) <= C22_Pos(b.name)

C22_PresentedSorted ==
    (mainPc = "done" /\ "--status" \in flags) =>
        LET n == Len(projectInfos)
        IN \E f \in [1..n -> 1..n] :
              /\ \A j, k \in 1..n : f[j] = f[k] => j = k
              /\ printed = [k \in 1..n |-> projectInfos[f[k]].repo.full_name]
              /\ \A k \in 2..n :
                    C22_NotAfter(projectInfos[f[k - 1]].repo, projectInfos[f[k]].repo)

\* Listed R2, r3, r1; completed as Bob/R2, alice/r3, Bob/r1; presented as
\* alice/r3, Bob/r1, Bob/R2.
C22_Witness ==
    /\ mainPc = "done"
    /\ projects = <<"R2", "r3", "r1">>
    /\ FullNames(projectInfos) = <<"Bob/R2", "alice/r3", "Bob/r1">>
    /\ printed = <<"alice/r3", "Bob/r1", "Bob/R2">>


(***************************************************************************)
(* C23: --read-status-file prints, in the order of the file's projects     *)
(* array, exactly the persisted snapshots whose repository name is one of  *)
(* the positional names, and all of them when no name is given.            *)
(***************************************************************************)
C23_Named(p) == Len(args) = 0 \/ \E k \in 1..Len(args) : args[k] = p.repo.name

C23_PrintsNamedSnapshots ==
    (cmd = "read" /\ mainPc = "done") =>
        printed = [k \in DOMAIN SelectSeq(readInfos.projects, C23_Named) |->
                      SelectSeq(readInfos.projects, C23_Named)[k].repo.full_name]


(***************************************************************************)
(* C24: what --write-status-file persists has as many entries as the       *)
(* sorted list it built, in the same order, each structurally equal to the *)
(* snapshot built (a field that is undefined counts as absent), and        *)
(* --read-status-file reads back exactly what was persisted; snapshots     *)
(* without Pages included.                                                 *)
(***************************************************************************)
C24_Absent == <<"undefined">>
C24_Field(r, k) ==
    IF k \notin DOMAIN r THEN C24_Absent
    ELSE IF k = "pages" /\ r[k] = {} THEN C24_Absent
    ELSE <<"value", r[k]>>

C24_StructurallyEqual(a, b) ==
    \A k \in DOMAIN a \cup DOMAIN b : C24_Field(a, k) = C24_Field(b, k)

C25_SetPrivates == {i \in CallIdx : IsSetPrivate(calls[i])}

C25_SetPrivateLastOnComplete ==
    cmd = "import" =>
        /\ \A i \in C25_SetPrivates :
              /\ i = Len(calls)
              /\ calls[i].owner = "patlillis"
              /\ calls[i].repo = RunName \o "-clone"
              /\ \E j \in 1..(i - 1) : IsSettingsUpdate(calls[j]) /\ calls[j].ok
              /\ projectInfo.topics # <<>> =>
                    \E j \in 1..(i - 1) :
                        calls[j].op = "repos.replaceAllTopics" /\ calls[j].ok
              /\ importStatus = "complete"
        /\ (pc = "returned" /\ importStatus = "complete") =>
              Cardinality(C25_SetPrivates) = 1


(***************************************************************************)
(* C26: an action given no repository name issues list-repositories for    *)
(* the source account, once, and is applied to exactly the names that call *)
(* answered, in their order; given names, it does not issue that call and  *)
(* is applied to exactly the names given.                                  *)
(***************************************************************************)
\* main has resolved the list of names of its action.
C26_Resolved ==
    \/ mainPc \in {"loop", "aggregate"}
    \/ mainPc = "done" /\ cmd \in {"import", "revert", "status"}

C26_NamesOf(infos) == {infos[k].repo.name : k \in 1..Len(infos)}

C27_StepFailed ==
    /\ cmd = "import"
    /\ \E i \in CallIdx : calls[i].op \in ReconcileOps /\ ~calls[i].ok

C27_FailedStepEndsRun ==
    /\ [](C27_StepFailed =>
            /\ calls[Len(calls)].op \in ReconcileOps
            /\ \A i \in CallIdx : ~calls[i].ok => i = Len(calls)
            /\ CountOp("repos.delete") = 0
            /\ pc = "thrown"
            /\ mainPc = "loop"
            /\ RunName \o "-clone" \in dstRepos)
    /\ [][C27_StepFailed =>
            /\ errors' = Append(errors, projects[idx])
            /\ idx' = idx + 1
            /\ pc' = "none"
            /\ mainPc' = "loop"
            /\ started' = started
            /\ dstRepos' = dstRepos]_vars

\* The settings were updated and the topic replacement was rejected.
C27_Witness ==
    /\ cmd = "import"
    /\ pc = "thrown"
    /\ Len(calls) >= 2
    /\ calls[Len(calls)].op = "repos.replaceAllTopics"
    /\ ~calls[Len(calls)].ok
    /\ IsSettingsUpdate(calls[Len(calls) - 1])
    /\ calls[Len(calls) - 1].ok


(***************************************************************************)
(* C28: when the import ends on one of the defined error statuses,         *)
(* importProject does not throw: it issues no further call, logs the       *)
(* status text (the status when the answer had no text) as its last status *)
(* line, in red, and returns; main takes the return, logs no error for     *)
(* that repository and goes on.                                            *)
(***************************************************************************)
C28_EndedOnError ==
    /\ cmd = "import"
    /\ importStatus \in C1_ErrorStatuses
    /\ pc # "loop"

C28_ErrorStatusReturns ==
    /\ [](C28_EndedOnError =>
            /\ pc = "returned"
            /\ calls[Len(calls)].op \in
                  {"migrations.startImport", "migrations.getImportStatus"}
            /\ calls[Len(calls)].ok
            /\ statusLine.colour = "red"
            /\ statusLine.text =
                  IF importStatusText = {} THEN importStatus
                  ELSE CHOOSE t \in importStatusText : TRUE)
    /\ [][C28_EndedOnError =>
            /\ errors' = errors
            /\ idx' = idx + 1
            /\ pc' = "none"
            /\ mainPc' = "loop"]_vars

\* The second poll answered auth_failed with a text: the text was logged.
C28_Witness ==
    /\ cmd = "import"
    /\ pc = "returned"
    /\ Polls = 2
    /\ importStatus = "auth_failed"
    /\ importStatusText = {"Importing..."}
    /\ statusLine = [text |-> "Importing...", colour |-> "red"]


(***************************************************************************)
(* C29: in getProjectInfo the stargazers, watchers, forks, issues and      *)
(* Pages calls are issued only after repos.get has answered; get-pages is  *)
(* among them, once, if and only if the answer's has_pages is true; when   *)
(* it is false the snapshot that is returned has no pages.                 *)
(***************************************************************************)
C29_FanOutCalls ==
    {i \in CallIdx :
        calls[i].op \in {"activity.listStargazersForRepo", "activity.listWatchersForRepo",
                         "repos.listForks", "issues.listForRepo", "repos.getPages"}}

\* What repos.get answered, as long as the run holds it.
C29_Fetched ==
    IF "settings" \in DOMAIN repoInfo THEN {repoInfo}
    ELSE IF "repo" \in DOMAIN projectInfo THEN {projectInfo.repo}
    ELSE {}

C29_MetadataGatesFanOut ==
    cmd = "import" =>
        /\ \A i \in C29_FanOutCalls :
              /\ i > 1
              /\ calls[1].op = "repos.get"
              /\ calls[1].ok
        /\ \A data \in C29_Fetched :
              /\ C29_FanOutCalls # {} =>
                    Cardinality({i \in CallIdx : calls[i].op = "repos.getPages"}) =
                        IF data.settings.has_pages THEN 1 ELSE 0
              /\ pc = "fanout" => C29_FanOutCalls = {}
              /\ pc \notin {"fanout", "thrown"} =>
                    Cardinality(C29_FanOutCalls) = IF data.settings.has_pages THEN 5 ELSE 4
        /\ "pages" \in DOMAIN projectInfo =>
              (projectInfo.pages = {} <=> ~projectInfo.repo.settings.has_pages)

\* has_pages was false: four calls were issued, none of them get-pages, and
\* getProjectInfo has returned a snapshot without pages.
C29_Witness ==
    /\ cmd = "import"
    /\ pc = "create"
    /\ ~projectInfo.repo.settings.has_pages
    /\ projectInfo.pages = {}
    /\ Cardinality(C29_FanOutCalls) = 4
    /\ CountOp("repos.getPages") = 0


(***************************************************************************)
(* C30: getProjectInfo issues its list-comments calls once the issues are  *)
(* fetched and sorted, exactly one call for each issue, in the order of    *)
(* the sorted issues; in whatever order the calls are answered, the        *)
(* comments stored under issue number N are those the call for issue N     *)
(* answered.                                                               *)
(***************************************************************************)
C30_MergedByIssueNumber ==
    \A i \in 1..Len(aggPc) :
        /\ "commentCalls" \in DOMAIN agg[i] =>
              /\ aggPc[i] \in {"comments", "resolved"}
              /\ \A c \in 1..Len(agg[i].commentCalls) :
                    c > 1 => agg[i].commentCalls[c - 1].issue_number
                                < agg[i].commentCalls[c].issue_number
        /\ aggPc[i] = "resolved" =>
              LET calledFor == agg[i].commentCalls
                  result == agg[i].result
              IN /\ Len(calledFor) = Len(agg[i].answer.issues)
                 /\ \A k \in 1..Len(agg[i].answer.issues) :
                       Cardinality({c \in 1..Len(calledFor) :
                           calledFor[c].issue_number = agg[i].answer.issues[k]}) = 1
                 /\ DOMAIN result.issueComments =
                       {calledFor[c].issue_number : c \in 1..Len(calledFor)}
                 /\ \A c \in 1..Len(calledFor) :
                       result.issueComments[calledFor[c].issue_number] = agg[i].comments[c]

\* Issues listed 2, 3, 1; the calls for 1, 2, 3 were answered in the order
\* 3, 1, 2; the comment of issue 1 is under 1 and that of issue 3 under 3.
C30_Witness ==
    \E i \in Resolved :
        /\ agg[i].answer.issues = <<2, 3, 1>>
        /\ agg[i].arrival = <<3, 1, 2>>
        /\ agg[i].comments = <<(<<"c1">>), <<>>, (<<"c1">>)>>
        /\ agg[i].result.issueComments[1] = <<"c1">>
        /\ agg[i].result.issueComments[2] = <<>>
        /\ agg[i].result.issueComments[3] = <<"c1">>

(***************************************************************************)
(* C31: in the poll loop of importProject a status line is logged for an   *)
(* observation exactly when its status differs from the status of the      *)
(* observation before it; the first observation, the answer of             *)
(* start-import, is always logged, and polls that repeat the same          *)
(* in-progress status add no further line.                                 *)
(***************************************************************************)
\* The loop has looked at the observation it holds, and now sleeps.
C31_Looked == cmd = "import" /\ pc = "poll"

\* A cycle of the loop: it looks at an observation and goes to sleep.
C31_Cycle == cmd = "import" /\ pc = "loop" /\ pc' = "poll"

\* The observation now held repeats the status of the one before it.
C31_Repeats == importStatus = previousImportStatus

C31_LoggedIffStatusChanged ==
    /\ [](C31_Looked => loopLines >= 1)
    /\ []((C31_Looked /\ Polls = 0) => loopLines = 1)
    /\ []((C31_Looked /\ Polls = 1) =>
             loopLines = IF C31_Repeats THEN 1 ELSE 2)
    /\ [][C31_Cycle =>
             /\ C31_Repeats => loopLines' = loopLines
             /\ ~C31_Repeats => loopLines' = loopLines + 1]_vars
    /\ [][(~C31_Cycle /\ pc' # "none") => loopLines' = loopLines]_vars

\* The first poll has repeated the in-progress status of start-import, the
\* loop has looked at it, and one line stands.
C31_Witness ==
    /\ C31_Looked
    /\ Polls = 1
    /\ C31_Repeats
    /\ loopLines = 1


(***************************************************************************)
(* C32: the poll loop of importProject has no bound on its cycles: while   *)
(* the status it holds is in progress the run only sleeps and polls again, *)
(* and reaches neither the reconciliation nor its return; once a status    *)
(* that is not in progress is held, and every step the run waits for       *)
(* comes, the run ends.                                                    *)
(***************************************************************************)
\* The loop holds an in-progress status.
C32_InProgress == cmd = "import" /\ pc = "loop" /\ IsInProgress(importStatus)

\* The loop holds a status that is not in progress.
C32_Settled == cmd = "import" /\ pc = "loop" /\ ~IsInProgress(importStatus)

\* The run is past the loop.
C32_PastLoop == cmd = "import" /\ pc \in {"update", "topics", "private", "returned"}

\* importProject has returned or thrown.
C32_Ended == cmd = "import" /\ pc \in {"returned", "thrown"}

C32_UnboundedPollTerminatesOnSettle ==
    /\ []((C32_InProgress /\ Polls < MaxPolls) => ENABLED LoopSleep)
    /\ [](C32_InProgress => ~ENABLED LoopExit)
    /\ [][C32_InProgress => pc' \in {"loop", "poll"}]_vars
    /\ [](C32_PastLoop => ~IsInProgress(importStatus))
    /\ C32_Settled ~> C32_Ended
    /\ (cmd = "import" /\ pc = "poll") ~> (C32_InProgress \/ C32_Ended)

\* Every poll the bound allows answered in progress but the last, and the
\* run has returned.
C32_Witness ==
    /\ cmd = "import"
    /\ pc = "returned"
    /\ Polls = MaxPolls
    /\ loopLines >= 1


(***************************************************************************)
(* C33: in every ProjectInfo that getProjectInfo returns, each key of      *)
(* issueComments is the number of an issue of its issues sequence.         *)
(***************************************************************************)
\* The snapshots getProjectInfo has returned: those just resolved and those
\* main has collected.
C33_Returned ==
    {agg[i].result : i \in {j \in 1..Len(aggPc) : aggPc[j] = "resolved"}}
        \cup {projectInfos[k] : k \in 1..Len(projectInfos)}

C33_IssueNumbers(p) == {p.issues[k] : k \in 1..Len(p.issues)}

C33_CommentKeysAreIssueNumbers ==
    \A p \in C33_Returned : DOMAIN p.issueComments \subseteq C33_IssueNumbers(p)

\* A returned snapshot with the issues 2 and 3 and no issue 1: the comments
\* are under 2 and 3.
C33_Witness ==
    \E p \in C33_Returned :
        /\ p.issues = <<2, 3>>
        /\ DOMAIN p.issueComments = {2, 3}
        /\ p.issueComments[3] = <<"c1">>


(***************************************************************************)
(* C34: within one import run every get-import-status call and every       *)
(* reconciliation write is made on the owner and name of the repository    *)
(* that create-repository created and start-import was issued on; the poll *)
(* asks about no repository but <name>-clone.                              *)
(***************************************************************************)
\* The calls of the run that come after start-import and name a repository.
C34_FollowUpOps ==
    {"migrations.getImportStatus", "repos.update", "repos.replaceAllTopics"}

C34_Repo(c) == <<c.owner, c.repo>>

C34_OneDestination ==
    cmd = "import" =>
        \A i \in CallIdx :
            /\ calls[i].op = "migrations.getImportStatus" =>
                  calls[i].repo = RunName \o "-clone"
            /\ calls[i].op \in C34_FollowUpOps =>
                  /\ \E j \in 1..(i - 1) :
                        /\ calls[j].op = "repos.createForAuthenticatedUser"
                        /\ calls[j].ok
                        /\ C34_Repo(calls[j]) = C34_Repo(calls[i])
                  /\ \E j \in 1..(i - 1) :
                        /\ calls[j].op = "migrations.startImport"
                        /\ calls[j].ok
                        /\ C34_Repo(calls[j]) = C34_Repo(calls[i])
                  /\ \A j \in CallIdx :
                        calls[j].op \in C34_FollowUpOps \cup
                            {"repos.createForAuthenticatedUser", "migrations.startImport"}
                        => C34_Repo(calls[j]) = C34_Repo(calls[i])

\* A run that polled as often as the bound allows and went through its
\* reconciliation: polls, settings, topics and set-private are on the clone.
C34_Witness ==
    /\ cmd = "import"
    /\ pc = "returned"
    /\ Polls = MaxPolls
    /\ \E i \in CallIdx : IsSetPrivate(calls[i]) /\ calls[i].repo = RunName \o "-clone"
    /\ \E i \in CallIdx : calls[i].op = "repos.replaceAllTopics"
    /\ \A i \in CallIdx :
          calls[i].op = "migrations.getImportStatus" =>
              C34_Repo(calls[i]) = <<"patlillis", RunName \o "-clone">>


(***************************************************************************)
(* C35: in the import and revert batches the operations run one at a time  *)
(* in the order of the list: the operation for a name is called, and its   *)
(* first remote call issued, only after the operations for all the names   *)
(* before it have returned or thrown, so the remote calls under way at any *)
(* moment concern one name.                                                *)
(***************************************************************************)
\* The operations main has called and that have neither returned nor thrown
\* to it: idx - 1 operations are over.
C35_UnderWay == Len(started) - (idx - 1)

C36_AggregationFailed ==
    /\ cmd = "import"
    /\ \E i \in CallIdx : calls[i].op \in C4_SourceOps /\ ~calls[i].ok

\* getProjectInfo is under way in the run.
C36_Aggregating == cmd = "import" /\ pc \in {"getRepo", "fanout", "comments"}

C36_SnapshotBeforeCreate ==
    /\ [](C36_AggregationFailed =>
            /\ pc = "thrown"
            /\ projectInfo = NoData
            /\ \A i \in CallIdx : calls[i].op \in C4_SourceOps
            /\ CountOp("repos.createForAuthenticatedUser") = 0)
    /\ []((cmd = "import" /\ CountOp("repos.createForAuthenticatedUser") > 0) =>
            /\ projectInfo # NoData
            /\ \A i \in CallIdx : calls[i].op \in C4_SourceOps => calls[i].ok)
    /\ [][(C36_Aggregating \/ C36_AggregationFailed) => dstRepos' = dstRepos]_vars

\* The repository was read and its issue listed, the list-comments call was
\* rejected: the run has thrown and its clone does not exist.
C36_Witness ==
    /\ C36_AggregationFailed
    /\ pc = "thrown"
    /\ calls[Len(calls)].op = "issues.listComments"
    /\ ~calls[Len(calls)].ok
    /\ CloneName(RunName) \notin dstRepos


(***************************************************************************)
(* C37: given a repository name, --write-status-file makes main report an  *)
(* error and return with no remote call issued and no snapshot file        *)
(* written; the snapshot file is written only after the repositories of    *)
(* the source account were listed, and holds the snapshot of every listed  *)
(* repository whose aggregation succeeded.                                 *)
(***************************************************************************)
\* main is in the branch of --write-status-file.
C37_Persist == cmd = "status" /\ "--write-status-file" \in flags

\* The names of the snapshots in the file.
C37_Written ==
    LET f == CHOOSE c \in file : TRUE
    IN {f.projects[k].repo.name : k \in 1..Len(f.projects)}

\* The names list-repositories answered.
C37_Listed == {listCalls[1].names[k] : k \in 1..Len(listCalls[1].names)}

\* The names whose aggregation was rejected.
C37_Failed == {errors[k] : k \in 1..Len(errors)}

C37_NamesRefused ==
    /\ []((C37_Persist /\ args # <<>>) =>
            /\ mainPc \in {"checkParams", "paramsError"}
            /\ "remote" \notin effects
            /\ "writeJson" \notin effects
            /\ file = Null
            /\ listCalls = <<>>
            /\ aggPc = <<>>)
    /\ [][(C37_Persist /\ args # <<>> /\ mainPc = "checkParams") =>
             mainPc' = "paramsError"]_vars
    /\ [][mainPc # "paramsError"]_vars

C37_WrittenForListing ==
    file # Null =>
        /\ C37_Persist
        /\ args = <<>>
        /\ Len(listCalls) = 1
        /\ listCalls[1].ok
        /\ projects = listCalls[1].names

\* The statement as written: the file holds the snapshots of all the
\* repositories of the account.
C37_FileHoldsAllRepositories ==
    /\ C37_NamesRefused
    /\ [](C37_WrittenForListing /\ (file # Null => C37_Written = C37_Listed))

C37_FileHoldsListedSuccesses ==
    /\ C37_NamesRefused
    /\ [](C37_WrittenForListing
            /\ (file # Null =>
                  /\ C37_Written = C37_Listed \ C37_Failed
                  /\ Len((CHOOSE c \in file : TRUE).projects)
                        = Cardinality(C37_Listed \ C37_Failed)))

\* --write-status-file r1: main has reported the error and returned.
C37_Witness ==
    /\ C37_Persist
    /\ args # <<>>
    /\ mainPc = "paramsError"
    /\ effects = {"readFile"}
    /\ file = Null


====
